---------------------------- MODULE Spec2Model ----------------------------
(***************************************************************************)
(* Menu-recommendation assistant: the analyzeMenu service call in its two  *)
(* variants (the richer one with qualityCheck, category and nutrition, and *)
(* the simpler one), from the reply of the model service to the promise    *)
(* the caller receives.                                                    *)
(*                                                                         *)
(* Texts are sequences of lexemes (a string literal, a number, a literal   *)
(* word, a punctuation mark, a run of whitespace, or a bare word that is   *)
(* no JSON lexeme).  JSON values are tagged records.  Messages of errors   *)
(* are sequences of words.                                                 *)
(***************************************************************************)
EXTENDS Integers, Sequences, FiniteSets, TLC

VARIABLES
    apiKey,      \* process.env.API_KEY as the service module reads it
    loadError,   \* what loading the service module threw
    pc,          \* "loading" | "failed" | "idle" | "pending" | "settled": the service
                 \* module and its one analyzeMenu call
    call,        \* arguments of the call in progress
    engine,      \* the JavaScript engine running the page (decides diagnostics' wording)
    sent,        \* the requests the call has handed to generateContent, in order
    reply,       \* what generateContent produced for the call
    thrown,      \* the error the catch block of analyzeMenu received
    outcome,     \* how the promise returned by analyzeMenu settled
    consoleLog,  \* what the call wrote with console.error
    ui,          \* the useState values of the App component of the richer application
    analyses,    \* the analyzeMenu calls of handleSubmit that have not settled, oldest first
    reads,       \* the files handleImageUpload is still reading, with their object URLs
    blobUrls,    \* how many object URLs were made, which were revoked, which the user added
    localStorage, \* what window.localStorage holds for the application
    indexedDB,   \* the 'menus' store of MenuRecommenderDB: the files kept by key, and how
                 \* many getFromDB requests were made of it
    pending      \* the promises and timers of the application that have not settled,
                 \* other than file reads and analyses

serviceVars == <<apiKey, loadError, pc, call, engine, sent, reply, thrown, outcome, consoleLog>>
historyVars == <<indexedDB, pending>>
appVars == <<ui, analyses, reads, blobUrls, localStorage, indexedDB, pending>>
vars == <<apiKey, loadError, pc, call, engine, sent, reply, thrown, outcome, consoleLog,
          ui, analyses, reads, blobUrls, localStorage, indexedDB, pending>>

----------------------------------------------------------------------------
(* Bounds of the model *)

\* longest suggestions array the model service returns
MaxSuggestions == 2
\* largest suggestionCount a caller asks for
MaxCount == 2
\* most images a caller hands to analyzeMenu
MaxImages == 2
\* most files the user uploads in one run of the richer application
MaxUploads == 2
\* most analyzeMenu calls the richer application has in flight
MaxInFlight == 2
\* most getFromDB requests the history effect makes in one run
MaxLoads == 2
\* most writes to the store of menus that are in flight when one more is asked for
MaxWrites == 1

----------------------------------------------------------------------------
(* JavaScript values, as far as JSON.parse produces them *)

JUndefined == [t |-> "undefined"]
JNull == [t |-> "null"]
JBool(b) == [t |-> "bool", b |-> b]
\* a number carries its lexeme
JNum(n) == [t |-> "num", n |-> n]
JStr(s) == [t |-> "str", s |-> s]
JArr(items) == [t |-> "arr", items |-> items]
\* an object: its own keys in insertion order, and their values
JObj(keys, vals) == [t |-> "obj", keys |-> keys, vals |-> vals]

IndexOf(seq, x) ==
    IF \E i \in 1..Len(seq) : seq[i] = x
    THEN CHOOSE i \in 1..Len(seq) : seq[i] = x /\ \A j \in 1..(i - 1) : seq[j] # x
    ELSE 0

HasKey(v, key) == v.t = "obj" /\ IndexOf(v.keys, key) # 0

\* v.key for a v that is neither null nor undefined (those throw a TypeError)
Get(v, key) ==
    IF v.t = "obj" /\ IndexOf(v.keys, key) # 0 THEN v.vals[IndexOf(v.keys, key)]
    ELSE IF v.t = "arr" /\ key = "length" THEN JNum(ToString(Len(v.items)))
    ELSE IF v.t = "str" /\ key = "length" THEN JNum(ToString(Len(v.s)))
    ELSE JUndefined

\* ToBoolean
Truthy(v) ==
    CASE v.t = "undefined" -> FALSE
      [] v.t = "null" -> FALSE
      [] v.t = "bool" -> v.b
      [] v.t = "num" -> v.n # "0"
      [] v.t = "str" -> v.s # ""
      [] OTHER -> TRUE

\* v === 0
StrictEqualsZero(v) == v.t = "num" /\ v.n = "0"

\* obj[key] = val while parsing: a repeated key keeps its place and takes the last value
SetMember(obj, key, val) ==
    IF IndexOf(obj.keys, key) # 0
    THEN JObj(obj.keys, [obj.vals EXCEPT ![IndexOf(obj.keys, key)] = val])
    ELSE JObj(Append(obj.keys, key), Append(obj.vals, val))

----------------------------------------------------------------------------
(* Texts *)

Tok(k, v) == [k |-> k, v |-> v]
LBrace == Tok("punct", "{")
RBrace == Tok("punct", "}")
LBracket == Tok("punct", "[")
RBracket == Tok("punct", "]")
Colon == Tok("punct", ":")
Comma == Tok("punct", ",")
WS == Tok("ws", " ")
StrTok(s) == Tok("str", s)

IsWs(tok) == tok.k = "ws"

\* String.prototype.trim
RECURSIVE TrimStart(_)
TrimStart(text) ==
    IF text # <<>> /\ IsWs(Head(text)) THEN TrimStart(Tail(text)) ELSE text

RECURSIVE TrimEnd(_)
TrimEnd(text) ==
    IF text # <<>> /\ IsWs(text[Len(text)])
    THEN TrimEnd(SubSeq(text, 1, Len(text) - 1))
    ELSE text

Trim(text) == TrimEnd(TrimStart(text))

----------------------------------------------------------------------------
(* JSON.parse *)

ParseOk(val, next) == [ok |-> TRUE, val |-> val, next |-> next, at |-> 0]
\* a SyntaxError at lexeme `at`; Len(text) + 1 is the end of the input
ParseFail(at) == [ok |-> FALSE, val |-> JUndefined, next |-> 0, at |-> at]

RECURSIVE SkipWs(_, _)
SkipWs(text, i) ==
    IF i <= Len(text) /\ IsWs(text[i]) THEN SkipWs(text, i + 1) ELSE i

LiteralValue(word) ==
    CASE word = "true" -> JBool(TRUE)
      [] word = "false" -> JBool(FALSE)
      [] OTHER -> JNull

RECURSIVE ParseValue(_, _)
RECURSIVE ParseElements(_, _, _)
RECURSIVE ParseMembers(_, _, _)

ParseValue(text, i) ==
    LET j == SkipWs(text, i) IN
    IF j > Len(text) THEN ParseFail(j)
    ELSE CASE text[j].k = "str" -> ParseOk(JStr(text[j].v), j + 1)
           [] text[j].k = "num" -> ParseOk(JNum(text[j].v), j + 1)
           [] text[j].k = "lit" -> ParseOk(LiteralValue(text[j].v), j + 1)
           [] text[j] = LBracket ->
                LET k == SkipWs(text, j + 1) IN
                IF k <= Len(text) /\ text[k] = RBracket
                THEN ParseOk(JArr(<<>>), k + 1)
                ELSE ParseElements(text, k, <<>>)
           [] text[j] = LBrace ->
                LET k == SkipWs(text, j + 1) IN
                IF k <= Len(text) /\ text[k] = RBrace
                THEN ParseOk(JObj(<<>>, <<>>), k + 1)
                ELSE ParseMembers(text, k, JObj(<<>>, <<>>))
           [] OTHER -> ParseFail(j)

ParseElements(text, i, acc) ==
    LET r == ParseValue(text, i) IN
    IF ~r.ok THEN r
    ELSE LET j == SkipWs(text, r.next) IN
         IF j > Len(text) THEN ParseFail(j)
         ELSE IF text[j] = Comma THEN ParseElements(text, j + 1, Append(acc, r.val))
         ELSE IF text[j] = RBracket THEN ParseOk(JArr(Append(acc, r.val)), j + 1)
         ELSE ParseFail(j)

ParseMembers(text, i, acc) ==
    LET j == SkipWs(text, i) IN
    IF j > Len(text) \/ text[j].k # "str" THEN ParseFail(j)
    ELSE LET c == SkipWs(text, j + 1) IN
         IF c > Len(text) \/ text[c] # Colon THEN ParseFail(c)
         ELSE LET r == ParseValue(text, c + 1) IN
              IF ~r.ok THEN r
              ELSE LET e == SkipWs(text, r.next) IN
                   IF e > Len(text) THEN ParseFail(e)
                   ELSE IF text[e] = Comma
                        THEN ParseMembers(text, e + 1, SetMember(acc, text[j].v, r.val))
                   ELSE IF text[e] = RBrace
                        THEN ParseOk(SetMember(acc, text[j].v, r.val), e + 1)
                   ELSE ParseFail(e)

\* JSON.parse(text): a value, or a SyntaxError at a lexeme
JSONParse(text) ==
    LET r == ParseValue(text, 1) IN
    IF ~r.ok THEN r
    ELSE IF SkipWs(text, r.next) <= Len(text) THEN ParseFail(SkipWs(text, r.next))
    ELSE r

----------------------------------------------------------------------------
(* The model service writing its reply: the JSON text of a value *)

\* `sep` follows every comma and colon: <<>> for the compact form, <<WS>> for
\* the form written with spaces
RECURSIVE Stringify(_, _)
RECURSIVE StringifyItems(_, _, _)
RECURSIVE StringifyMembers(_, _, _)

Stringify(v, sep) ==
    CASE v.t = "null" -> <<Tok("lit", "null")>>
      [] v.t = "bool" -> <<Tok("lit", IF v.b THEN "true" ELSE "false")>>
      [] v.t = "num" -> <<Tok("num", v.n)>>
      [] v.t = "str" -> <<StrTok(v.s)>>
      [] v.t = "arr" -> <<LBracket>> \o StringifyItems(v.items, 1, sep) \o <<RBracket>>
      [] v.t = "obj" -> <<LBrace>> \o StringifyMembers(v, 1, sep) \o <<RBrace>>

StringifyItems(items, i, sep) ==
    IF i > Len(items) THEN <<>>
    ELSE (IF i > 1 THEN <<Comma>> \o sep ELSE <<>>)
         \o Stringify(items[i], sep) \o StringifyItems(items, i + 1, sep)

StringifyMembers(obj, i, sep) ==
    IF i > Len(obj.keys) THEN <<>>
    ELSE (IF i > 1 THEN <<Comma>> \o sep ELSE <<>>)
         \o <<StrTok(obj.keys[i]), Colon>> \o sep \o Stringify(obj.vals[i], sep)
         \o StringifyMembers(obj, i + 1, sep)

----------------------------------------------------------------------------
(* Messages: sequences of words *)

StartsWith(message, prefix) ==
    Len(message) >= Len(prefix) /\ SubSeq(message, 1, Len(prefix)) = prefix

\* String.prototype.toLowerCase, on the words that reach it
ToLowerCase(word) ==
    CASE word = "Failed" -> "failed"
      [] word = "Network" -> "network"
      [] word = "NetworkError" -> "networkerror"
      [] word = "FETCH" -> "fetch"
      [] word = "The" -> "the"
      [] word = "A" -> "a"
      [] word = "IA" -> "ia"
      [] word = "Não" -> "não"
      [] word = "Cannot" -> "cannot"
      [] word = "Unexpected" -> "unexpected"
      [] word = "JSON" -> "json"
      [] word = "JSON.parse:" -> "json.parse:"
      [] word = "UNAVAILABLE" -> "unavailable"
      [] word = "Bistrô" -> "bistrô"
      [] word = "Cantina" -> "cantina"
      [] OTHER -> word

\* whether a lower-case word has `needle` as a substring
WordIncludes(word, needle) ==
    CASE needle = "network" -> word \in {"network", "networkerror"}
      [] needle = "fetch" -> word \in {"fetch", "fetch.", "fetching"}
      [] OTHER -> word = needle

\* message.toLowerCase().includes(needle)
LowerIncludes(message, needle) ==
    \E i \in 1..Len(message) : WordIncludes(ToLowerCase(message[i]), needle)

EmptyResponseMsg ==
    <<"A", "IA", "retornou", "uma", "resposta", "vazia.",
      "Isso pode acontecer devido a imagens de menu muito escuras, desfocadas ou ilegíveis.",
      "Por favor, tente tirar fotos de melhor qualidade.">>

MalformedResponseMsg ==
    <<"A", "IA", "retornou", "uma", "resposta", "em", "um", "formato", "inesperado.",
      "Verifique se as imagens do menu estão claras e tente novamente.">>

IncompleteResponseMsg ==
    <<"A", "resposta", "da", "IA", "está", "incompleta.",
      "Não foi possível verificar a qualidade da imagem.">>

DefaultFeedback == "Qualidade de imagem insuficiente."

IllegibleMsg(feedback) ==
    <<"Não", "foi", "possível", "ler", "o", "menu.", "Motivo:", feedback, ".",
      "Por favor, tente tirar uma nova foto com mais nitidez, melhor iluminação e sem reflexos.">>

NoMatchesMsg ==
    <<"Nenhuma", "sugestão", "encontrada.",
      "O menu pode não conter pratos que correspondam ao seu perfil, ou a IA pode não ter conseguido ler as imagens corretamente.",
      "Tente usar fotos mais nítidas e com boa iluminação.">>

ConnectivityMsg ==
    <<"Houve", "um", "problema", "de", "conexão", "ao", "contatar", "a", "IA.",
      "Verifique sua conexão com a internet e tente novamente.">>

WrappedPrefix ==
    <<"Falha", "ao", "obter", "recomendações", "da", "IA.",
      "A", "resposta", "do", "servidor", "foi:">>

UnknownErrorMsg == <<"Ocorreu", "um", "erro", "desconhecido", "ao", "analisar", "o", "menu.">>

SimpleNoSuggestionsMsg ==
    <<"O", "modelo", "não", "retornou", "nenhuma", "sugestão.",
      "O menu pode estar ilegível ou não ter opções adequadas.">>

SimpleWrappedPrefix == <<"Falha", "ao", "obter", "recomendações", "da", "IA:">>

----------------------------------------------------------------------------
(* What the engine throws by itself *)

\* reading property `prop` of `base`, which is null or undefined
TypeErrorMsg(eng, base, expr, prop) ==
    IF eng = "v8"
    THEN <<"Cannot", "read", "properties", "of", base, "(reading", prop, ")">>
    ELSE <<"can't", "access", "property", prop, ",", expr, "is", base>>

\* the SyntaxError of JSON.parse for a failure at lexeme `at` of `text`
SyntaxErrorMsg(eng, text, at) ==
    IF eng = "v8"
    THEN IF at > Len(text)
         THEN <<"Unexpected", "end", "of", "JSON", "input">>
         ELSE <<"Unexpected", "token", text[at].v, "in", "JSON", "at", "position", ToString(at - 1)>>
    ELSE IF at > Len(text)
         THEN <<"JSON.parse:", "unexpected", "end", "of", "data", "at", "line", "1",
                "column", ToString(at), "of", "the", "JSON", "data">>
         ELSE <<"JSON.parse:", "unexpected", "character", "at", "line", "1",
                "column", ToString(at), "of", "the", "JSON", "data">>

\* `${v}` in a template literal
RECURSIVE ToJSString(_)
RECURSIVE JoinItems(_, _)
ToJSString(v) ==
    CASE v.t = "str" -> v.s
      [] v.t = "num" -> v.n
      [] v.t = "bool" -> IF v.b THEN "true" ELSE "false"
      [] v.t = "null" -> "null"
      [] v.t = "undefined" -> "undefined"
      [] v.t = "arr" -> JoinItems(v.items, 1)
      [] v.t = "obj" -> "[object Object]"

JoinItems(items, i) ==
    IF i > Len(items) THEN ""
    ELSE (IF i > 1 THEN "," ELSE "")
         \o (IF items[i].t \in {"null", "undefined"} THEN "" ELSE ToJSString(items[i]))
         \o JoinItems(items, i + 1)

----------------------------------------------------------------------------
(* analyzeMenu, richer variant: the body of its try block after the await *)

\* an Error (or another thrown value) and where it was thrown:
\* "validation" by a check of analyzeMenu, "runtime" by the engine, "transport" by
\* generateContent
Err(isError, message, site) == [isError |-> isError, message |-> message, site |-> site]
NoErr == Err(FALSE, <<>>, "none")

Returned(value) == [kind |-> "return", value |-> value, error |-> NoErr]
Threw(error) == [kind |-> "throw", value |-> JUndefined, error |-> error]

\* RichResult with a slip: the list is cut to its first element
RichResultFirstOnly(result) ==
    LET suggestions == Get(result, "suggestions") IN
    JObj(<<"suggestions">>,
         <<IF suggestions.t = "arr" THEN JArr(SubSeq(suggestions.items, 1, 1)) ELSE suggestions>>)

\* return { suggestions: result.suggestions }
RichResult(result) == JObj(<<"suggestions">>, <<Get(result, "suggestions")>>)

\* FeedbackOf with a slip: only a feedback that is not there takes the generic phrase
FeedbackOfNullish(qualityCheck) ==
    IF Get(qualityCheck, "feedback").t \in {"undefined", "null"}
    THEN DefaultFeedback
    ELSE ToJSString(Get(qualityCheck, "feedback"))

\* result.qualityCheck.feedback || 'Qualidade de imagem insuficiente.'
FeedbackOf(qualityCheck) ==
    IF Truthy(Get(qualityCheck, "feedback"))
    THEN ToJSString(Get(qualityCheck, "feedback"))
    ELSE DefaultFeedback

\* the error thrown where JSON.parse fails: its message does not use the text
MalformedErrorQuotingText(jsonText) ==
    Err(TRUE, MalformedResponseMsg \o [i \in 1..Len(jsonText) |-> jsonText[i].v], "validation")

MalformedError(jsonText) == Err(TRUE, MalformedResponseMsg, "validation")

\* ValidateRich with a slip: the suggestions are looked at before the legibility
ValidateRichSuggestionsFirst(eng, result) ==
    IF result.t = "null"
    THEN Threw(Err(TRUE, TypeErrorMsg(eng, "null", "result", "qualityCheck"), "runtime"))
    ELSE IF ~Truthy(Get(result, "qualityCheck"))
    THEN Threw(Err(TRUE, IncompleteResponseMsg, "validation"))
    ELSE IF /\ Truthy(Get(result, "suggestions"))
            /\ ~StrictEqualsZero(Get(Get(result, "suggestions"), "length"))
    THEN Returned(RichResult(result))
    ELSE IF ~Truthy(Get(Get(result, "qualityCheck"), "isLegible"))
    THEN Threw(Err(TRUE, IllegibleMsg(FeedbackOf(Get(result, "qualityCheck"))), "validation"))
    ELSE Threw(Err(TRUE, NoMatchesMsg, "validation"))

\* the checks on the decoded result
ValidateRich(eng, result) ==
    IF result.t = "null"
    THEN Threw(Err(TRUE, TypeErrorMsg(eng, "null", "result", "qualityCheck"), "runtime"))
    ELSE IF ~Truthy(Get(result, "qualityCheck"))
    THEN Threw(Err(TRUE, IncompleteResponseMsg, "validation"))
    ELSE IF ~Truthy(Get(Get(result, "qualityCheck"), "isLegible"))
    THEN Threw(Err(TRUE, IllegibleMsg(FeedbackOf(Get(result, "qualityCheck"))), "validation"))
    ELSE IF \/ ~Truthy(Get(result, "suggestions"))
            \/ StrictEqualsZero(Get(Get(result, "suggestions"), "length"))
    THEN Threw(Err(TRUE, NoMatchesMsg, "validation"))
    ELSE Returned(RichResult(result))

\* from response.text to the return or the throw
RichTry(eng, rep) ==
    IF rep.kind = "reject" THEN Threw(rep.error)
    ELSE IF rep.kind = "notext"
    THEN Threw(Err(TRUE, TypeErrorMsg(eng, "undefined", "response.text", "trim"), "runtime"))
    ELSE LET jsonText == Trim(rep.text) IN
         IF jsonText = <<>>
         THEN Threw(Err(TRUE, EmptyResponseMsg, "validation"))
         ELSE LET parsed == JSONParse(jsonText) IN
              IF ~parsed.ok
              THEN Threw(MalformedError(jsonText))
              ELSE ValidateRich(eng, parsed.val)

\* error.message.startsWith("A IA") || ... : the errors re-thrown as they are
IsCustomError(message) ==
    \/ StartsWith(message, <<"A", "IA">>)
    \/ StartsWith(message, <<"Nenhuma", "sugestão">>)
    \/ StartsWith(message, <<"Não", "foi", "possível", "ler">>)

\* the catch block: the error the caller receives for the error caught
RichCatch(error) ==
    IF error.isError
    THEN IF IsCustomError(error.message) THEN error
         ELSE IF LowerIncludes(error.message, "network") \/ LowerIncludes(error.message, "fetch")
         THEN Err(TRUE, ConnectivityMsg, "catch")
         ELSE Err(TRUE, WrappedPrefix \o error.message, "catch")
    ELSE Err(TRUE, UnknownErrorMsg, "catch")

LogEntry(label, text, message) == [label |-> label, text |-> text, message |-> message]

\* the console.error calls of one run whose try block ended as `attempt`: the raw
\* text where JSON.parse failed, then the error caught
RichLog(rep, attempt) ==
    (IF attempt.kind = "throw" /\ attempt.error.message = MalformedResponseMsg
     THEN <<LogEntry("Failed to parse Gemini response as JSON:", Trim(rep.text), <<>>)>>
     ELSE <<>>)
    \o (IF attempt.kind = "throw"
        THEN <<LogEntry("Error analyzing menu with Gemini:", <<>>, attempt.error.message)>>
        ELSE <<>>)

----------------------------------------------------------------------------
(* analyzeMenu, simpler variant *)

SimpleTry(eng, rep) ==
    IF rep.kind = "reject" THEN Threw(rep.error)
    ELSE IF rep.kind = "notext"
    THEN Threw(Err(TRUE, TypeErrorMsg(eng, "undefined", "response.text", "trim"), "runtime"))
    ELSE LET jsonText == Trim(rep.text)
             parsed == JSONParse(jsonText)
             result == parsed.val
         IN  IF ~parsed.ok
             THEN Threw(Err(TRUE, SyntaxErrorMsg(eng, jsonText, parsed.at), "runtime"))
             ELSE IF result.t = "null"
             THEN Threw(Err(TRUE, TypeErrorMsg(eng, "null", "result", "suggestions"), "runtime"))
             ELSE IF \/ ~Truthy(Get(result, "suggestions"))
                     \/ StrictEqualsZero(Get(Get(result, "suggestions"), "length"))
             THEN Threw(Err(TRUE, SimpleNoSuggestionsMsg, "validation"))
             ELSE Returned(result)

SimpleCatch(error) ==
    IF error.isError
    THEN Err(TRUE, SimpleWrappedPrefix \o error.message, "catch")
    ELSE Err(TRUE, UnknownErrorMsg, "catch")

SimpleLog(rep, attempt) ==
    IF attempt.kind = "throw"
    THEN <<LogEntry("Error analyzing menu with Gemini:", <<>>, attempt.error.message)>>
    ELSE <<>>

----------------------------------------------------------------------------
(* analyzeMenu: the request it builds *)

\* the six lines of the profile in the instruction, in their order
ProfileFields == <<"tastes", "allergies", "preferences", "mood", "diet", "budget">>

\* the fields that hold a list of tags in the simpler variant
TagFields == {"tastes", "allergies", "preferences", "diet"}

\* the text after `||` on the line of a field
DefaultText(field) ==
    CASE field = "tastes" -> "Não especificado"
      [] field = "allergies" -> "Nenhuma especificada"
      [] field = "preferences" -> "Nenhuma preferência específica"
      [] field = "mood" -> "Neutro"
      [] field = "diet" -> "Nenhuma"
      [] field = "budget" -> "Flexível"

\* OrDefault with a slip: only a missing value takes the fallback (`??`)
OrDefaultNullish(v, fallback) ==
    IF v.t \in {"undefined", "null"} THEN fallback ELSE ToJSString(v)

\* `${v || fallback}`
OrDefault(v, fallback) == IF Truthy(v) THEN ToJSString(v) ELSE fallback

\* items.join(sep)
RECURSIVE JoinWith(_, _, _)
JoinWith(items, i, sep) ==
    IF i > Len(items) THEN ""
    ELSE (IF i > 1 THEN sep ELSE "")
         \o (IF items[i].t \in {"null", "undefined"} THEN "" ELSE ToJSString(items[i]))
         \o JoinWith(items, i + 1, sep)

\* calling `expr`, which is not a function
NotAFunctionMsg(expr) == <<expr, "is", "not", "a", "function">>

\* the instruction of the richer variant: what stands on the line of each field,
\* and the number written in the two places that limit the suggestions
RichProfileText(profile, suggestionCount) ==
    [ lines |-> [i \in 1..Len(ProfileFields) |->
                    OrDefault(Get(profile, ProfileFields[i]), DefaultText(ProfileFields[i]))],
      limit |-> <<ToString(suggestionCount), ToString(suggestionCount)>> ]

\* one line of the simpler variant: `${profile.tastes.join(', ') || '...'}` for a
\* list of tags, `${profile.mood || '...'}` for a string
SimpleLine(eng, profile, field) ==
    LET v == Get(profile, field) IN
    IF field \notin TagFields
    THEN Returned(OrDefault(v, DefaultText(field)))
    ELSE IF v.t \in {"undefined", "null"}
    THEN Threw(Err(TRUE, TypeErrorMsg(eng, v.t, "profile." \o field, "join"), "runtime"))
    ELSE IF v.t # "arr"
    THEN Threw(Err(TRUE, NotAFunctionMsg("profile." \o field \o ".join"), "runtime"))
    ELSE Returned(OrDefault(JStr(JoinWith(v.items, 1, ", ")), DefaultText(field)))

\* the instruction of the simpler variant, or the error of the first line that throws;
\* it asks for "3 a 5" suggestions
SimpleProfileText(eng, profile) ==
    LET line(i) == SimpleLine(eng, profile, ProfileFields[i])
        failing == {i \in 1..Len(ProfileFields) : line(i).kind = "throw"}
    IN  IF failing # {}
        THEN line(CHOOSE i \in failing : \A j \in failing : i <= j)
        ELSE Returned([ lines |-> [i \in 1..Len(ProfileFields) |-> line(i).value],
                        limit |-> <<"3", "5">> ])

\* ImageParts with a slip: the parts come out in reverse
ImagePartsReversed(images) ==
    [i \in 1..Len(images) |->
        [inlineData |-> [data |-> images[Len(images) + 1 - i].base64,
                         mimeType |-> images[Len(images) + 1 - i].mimeType]]]

\* images.map(image => ({ inlineData: { data: image.base64, mimeType: image.mimeType } }))
ImageParts(images) ==
    [i \in 1..Len(images) |->
        [inlineData |-> [data |-> images[i].base64, mimeType |-> images[i].mimeType]]]

\* the argument of generateContent, and the credential the client sends with it
Request(key, profileText, images, required) ==
    [ apiKey |-> key,
      model |-> "gemini-2.5-flash",
      parts |-> <<[text |-> profileText]>> \o ImageParts(images),
      responseMimeType |-> "application/json",
      required |-> required ]

----------------------------------------------------------------------------
(* How the promise of analyzeMenu settles *)

Fulfilled(value) == [kind |-> "fulfilled", value |-> value, error |-> NoErr]
Rejected(error) == [kind |-> "rejected", value |-> JUndefined, error |-> error]
Unsettled == [kind |-> "none", value |-> JUndefined, error |-> NoErr]

TryOf(variant, eng, rep) ==
    IF variant = "rich" THEN RichTry(eng, rep) ELSE SimpleTry(eng, rep)

CatchOf(variant, error) ==
    IF variant = "rich" THEN RichCatch(error) ELSE SimpleCatch(error)

LogOf(variant, rep, attempt) ==
    IF variant = "rich" THEN RichLog(rep, attempt) ELSE SimpleLog(rep, attempt)

\* the promise: fulfilled with what the try block returned, or rejected with what
\* the catch block threw
Settle(variant, attempt) ==
    IF attempt.kind = "return"
    THEN Fulfilled(attempt.value)
    ELSE Rejected(CatchOf(variant, attempt.error))

----------------------------------------------------------------------------
(* What the model service can answer *)

NutritionalInfo ==
    JObj(<<"calories", "carbohydrates", "fats", "protein", "sodium">>,
         <<JStr("450 kcal"), JStr("N/A"), JStr("20g"), JStr("N/A"), JStr("N/A")>>)

\* all required fields and the nutrition block
Moqueca ==
    JObj(<<"dishName", "description", "price", "reasonForRecommendation", "category",
           "nutritionalInfo">>,
         <<JStr("Moqueca"), JStr("Peixe com leite de coco"), JStr("R$ 58,00"),
           JStr("Combina com o gosto por frutos do mar"), JStr("Prato Principal"),
           NutritionalInfo>>)

\* all required fields, no nutrition block
Feijoada ==
    JObj(<<"dishName", "description", "price", "reasonForRecommendation", "category">>,
         <<JStr("Feijoada"), JStr("Feijão preto com carnes"), JStr("R$ 45,00"),
           JStr("Cabe no orçamento"), JStr("Prato Principal")>>)

\* price and category missing
Pudim ==
    JObj(<<"dishName", "description", "reasonForRecommendation">>,
         <<JStr("Pudim"), JStr("Pudim de leite"), JStr("Sobremesa leve")>>)

SuggestionPool == {Moqueca, Feijoada, Pudim}

SuggestionArrays ==
    {JArr(items) : items \in UNION {[1..n -> SuggestionPool] : n \in 0..MaxSuggestions}}

\* the member is left out of the object
Absent == JUndefined

SuggestionsMembers ==
    SuggestionArrays \cup {Absent, JNull, JObj(<<>>, <<>>), JStr("Moqueca"), JNum("5")}

QualityCheck(isLegible, feedback) ==
    JObj(<<"isLegible", "feedback">>, <<JBool(isLegible), JStr(feedback)>>)

QualityCheckMembers ==
    { QualityCheck(TRUE, ""),
      QualityCheck(FALSE, "A imagem está escura demais"),
      QualityCheck(FALSE, ""),
      JObj(<<"isLegible">>, <<JBool(FALSE)>>),
      JObj(<<"isLegible", "feedback">>, <<JBool(FALSE), JNull>>),
      JObj(<<>>, <<>>),
      JNull,
      JBool(TRUE),
      Absent }

Response(qualityCheck, suggestions) ==
    LET withQc == IF qualityCheck = Absent THEN JObj(<<>>, <<>>)
                  ELSE JObj(<<"qualityCheck">>, <<qualityCheck>>)
    IN  IF suggestions = Absent THEN withQc
        ELSE JObj(Append(withQc.keys, "suggestions"), Append(withQc.vals, suggestions))

ReplyValues ==
    {Response(q, s) : q \in QualityCheckMembers, s \in SuggestionsMembers}
    \cup {JNull, JBool(TRUE), JNum("5"), JStr("Moqueca"), JArr(<<>>)}

\* a reply of generateContent: the text of response.text (kind "text"), a response
\* with no text (kind "notext"), or a rejection (kind "reject").  `origin` is the
\* value the service wrote, where it wrote one; `shape` tells how the text was made
TextReply(text, origin, shape) ==
    [kind |-> "text", text |-> text, origin |-> origin, shape |-> shape, error |-> NoErr]
NoTextReply ==
    [kind |-> "notext", text |-> <<>>, origin |-> JUndefined, shape |-> "none", error |-> NoErr]
RejectReply(error) ==
    [kind |-> "reject", text |-> <<>>, origin |-> JUndefined, shape |-> "none", error |-> error]
NoReply ==
    [kind |-> "none", text |-> <<>>, origin |-> JUndefined, shape |-> "none", error |-> NoErr]

\* a text that names qualityCheck twice: the later member is the one that counts
RepeatedKeyText ==
    <<LBrace, StrTok("qualityCheck"), Colon, Tok("lit", "null"), Comma>>
    \o Tail(Stringify(Response(QualityCheck(TRUE, ""), JArr(<<Feijoada>>)), <<>>))

JsonReplies ==
    {TextReply(Stringify(v, <<>>), v, "json") : v \in ReplyValues}
    \cup {TextReply(<<WS>> \o Stringify(v, <<WS>>) \o <<WS>>, v, "json") : v \in ReplyValues}
    \cup {TextReply(RepeatedKeyText, Response(QualityCheck(TRUE, ""), JArr(<<Feijoada>>)), "json")}

BlankReplies ==
    {TextReply(text, JUndefined, "blank") : text \in {<<>>, <<WS>>, <<WS, WS>>}}

\* a reply cut short
TruncatedBase == Stringify(Response(QualityCheck(TRUE, ""), JArr(<<Feijoada>>)), <<>>)

InvalidTexts ==
    {SubSeq(TruncatedBase, 1, n) : n \in 1..(Len(TruncatedBase) - 1)}
    \cup { TruncatedBase \o <<RBrace>>,
           <<WS>> \o TruncatedBase \o <<WS, Tok("bad", "Moqueca")>>,
           <<Tok("bad", "Desculpe")>>,
           <<Tok("bad", "undefined")>>,
           <<LBracket, Comma, RBracket>>,
           <<LBrace, StrTok("suggestions"), RBrace>>,
           <<LBrace, StrTok("suggestions"), Colon, LBracket, RBracket, Comma, RBrace>> }

InvalidReplies == {TextReply(text, JUndefined, "invalid") : text \in InvalidTexts}

TextReplies == JsonReplies \cup BlankReplies \cup InvalidReplies

\* every response generateContent can resolve with
Responses == TextReplies \cup {NoTextReply}

TransportErrors ==
    { Err(TRUE, <<"Failed", "to", "fetch">>, "transport"),
      Err(TRUE, <<"NetworkError", "when", "attempting", "to", "fetch", "resource.">>, "transport"),
      Err(TRUE, <<"503", "The", "model", "is", "overloaded.">>, "transport"),
      Err(TRUE, <<"A", "IA", "está", "indisponível:", "Failed", "to", "fetch">>, "transport"),
      Err(TRUE, <<"Não", "foi", "possível", "ler", "a", "resposta", "do", "servidor">>,
          "transport"),
      Err(FALSE, <<"timeout">>, "transport") }

\* one reply of each kind, for the runs that vary the arguments of the call
SomeReplies ==
    { TextReply(TruncatedBase, Response(QualityCheck(TRUE, ""), JArr(<<Feijoada>>)), "json"),
      TextReply(<<WS>>, JUndefined, "blank") }

SomeTransportErrors == {Err(TRUE, <<"Failed", "to", "fetch">>, "transport")}

----------------------------------------------------------------------------
(* What a caller can pass to analyzeMenu *)

\* a profile field is absent, empty or filled in
FieldNames == {ProfileFields[i] : i \in 1..Len(ProfileFields)}
FieldStates == [FieldNames -> {"absent", "empty", "filled"}]

\* what the form of the richer application holds in a field that is filled in
FilledString(field) ==
    CASE field = "tastes" -> JStr("picante, agridoce")
      [] field = "allergies" -> JStr("amendoim")
      [] field = "preferences" -> JStr("vegetariano")
      [] field = "mood" -> JStr("aventureiro")
      [] field = "diet" -> JStr("sem glúten")
      [] field = "budget" -> JStr("até R$ 50")

\* the same in the simpler application, where four fields are lists of tags
FilledTags(field) ==
    CASE field = "tastes" -> JArr(<<JStr("picante"), JStr("agridoce")>>)
      [] field = "allergies" -> JArr(<<JStr("amendoim")>>)
      [] field = "preferences" -> JArr(<<JStr("vegetariano")>>)
      [] field = "diet" -> JArr(<<JStr("sem glúten")>>)
      [] OTHER -> FilledString(field)

FieldValue(variant, field, state) ==
    IF state = "filled"
    THEN IF variant = "rich" THEN FilledString(field) ELSE FilledTags(field)
    ELSE IF variant = "simple" /\ field \in TagFields THEN JArr(<<>>) ELSE JStr("")

\* the profile object whose fields are as `states` tells; an absent field is no key
ProfileOf(variant, states) ==
    LET present(field) == states[field] # "absent"
        keys == SelectSeq(ProfileFields, present)
    IN  JObj(keys, [i \in 1..Len(keys) |-> FieldValue(variant, keys[i], states[keys[i]])])

\* the profiles of scalar strings the richer variant can be called with, and the
\* profiles of tag lists the simpler variant can be called with
RichProfiles == {ProfileOf("rich", states) : states \in FieldStates}
TagProfiles == {ProfileOf("simple", states) : states \in FieldStates}

\* three of each: every field filled in, every field empty, every field absent
SomeRichProfiles ==
    {ProfileOf("rich", [field \in FieldNames |-> state]) :
        state \in {"absent", "empty", "filled"}}
SomeTagProfiles ==
    {ProfileOf("simple", [field \in FieldNames |-> state]) :
        state \in {"absent", "empty", "filled"}}

Image(base64, mimeType) == [base64 |-> base64, mimeType |-> mimeType]

ImagePool == {Image("/9j/4AAQ", "image/jpeg"), Image("iVBORw0K", "image/png")}

ImageLists == UNION {[1..n -> ImagePool] : n \in 0..MaxImages}

SomeImageLists == {<<Image("/9j/4AAQ", "image/jpeg")>>}

----------------------------------------------------------------------------
(* The service module and the call *)

NoCall == [variant |-> "none", profile |-> JUndefined, images |-> <<>>, suggestionCount |-> 0]

ApiKeyMissingMsg == <<"API_KEY", "environment", "variable", "not", "set">>

\* the key is present and not the empty string only in the first case
ApiKeys == {JStr("AIzaSy-key"), JStr(""), JUndefined}

RequiredOf(variant) == IF variant = "rich" THEN <<"qualityCheck">> ELSE <<>>

----------------------------------------------------------------------------
(* The richer application: what its state is made of *)

\* null, where a state holds a message or a name
Nothing == <<>>

\* the App component is not mounted
NotMounted == [mounted |-> FALSE]

\* `byUser` is history: the URLs of the images the user added since the name of the
\* restaurant was last changed, the form reset or a restaurant deleted, less those
\* the user removed and those whose read failed
NoBlobUrls == [made |-> 0, revoked |-> {}, byUser |-> {}]

\* the 'menus' store with nothing in it
NoMenus == [menus |-> {}, gets |-> 0]

\* openDB() of the effect that runs when the component is mounted
OpenRequest == [op |-> "open"]

\* getDefaultProfile()
DefaultProfile == ProfileOf("rich", [field \in FieldNames |-> "empty"])

\* a stored profile the user saved earlier
StoredProfile == ProfileOf("rich", [field \in FieldNames |-> "filled"])

\* localStorage: the saved profiles by name, and the name of the last active one
\* ("" where the key is not there)
EmptyStorage == [profiles |-> JObj(<<>>, <<>>), lastActiveProfileName |-> ""]
UsedStorage == [profiles |-> JObj(<<"Jantar">>, <<StoredProfile>>), lastActiveProfileName |-> "Jantar"]

\* useState(5) of suggestionCount
DefaultSuggestionCount == 5

\* what the user can type as the name of the restaurant: nothing, a blank, a name
RestaurantNames == {<<>>, <<WS>>, <<StrTok("Bistrô")>>}

\* a file the user can choose, with what FileReader makes of it
MenuPhoto == [name |-> "menu.jpg", base64 |-> "/9j/4AAQ", mimeType |-> "image/jpeg"]
Files == {MenuPhoto}

\* what the user can type as the name of a profile
ProfileNames == {"", " ", "Jantar", " Almoço "}

\* String.prototype.trim, on the profile names that reach it
TrimName(name) ==
    CASE name = " " -> ""
      [] name = " Almoço " -> "Almoço"
      [] OTHER -> name

\* what the user can type in a field of the profile form: the field and its new text
ProfileInputs == [name : {"budget"}, value : {"", "acessível"}]

SaveProfileFailedMsg ==
    <<"Não foi possível salvar o perfil.",
      "O armazenamento do navegador pode estar cheio ou indisponível.">>
DeleteProfileFailedMsg ==
    <<"Não foi possível apagar o perfil.",
      "O armazenamento do navegador pode estar indisponível.">>

\* { ...obj } followed by `delete copy[key]`
DeleteMember(obj, key) ==
    LET kept == {i \in 1..Len(obj.keys) : obj.keys[i] # key}
        at(n) == CHOOSE i \in kept : Cardinality({j \in kept : j < i}) = n - 1
    IN  JObj([n \in 1..Cardinality(kept) |-> obj.keys[at(n)]],
             [n \in 1..Cardinality(kept) |-> obj.vals[at(n)]])

\* what JSON.parse gives back of what JSON.stringify wrote
ReadBack(value) == JSONParse(Stringify(value, <<>>)).val

OpenFailedMsg ==
    <<"Não foi possível carregar o histórico de menus.",
      "O armazenamento do navegador pode estar desativado.">>
LoadMenuFailedMsg == <<"Houve um problema ao carregar o menu do histórico.">>
LoadImagesFailedMsg == <<"Houve um problema ao carregar as imagens do menu do histórico.">>
SaveMenuFailedMsg ==
    <<"Não foi possível salvar o menu no histórico.",
      "O armazenamento pode estar cheio ou indisponível.">>
DeleteMenuFailedMsg == <<"Não foi possível apagar o menu do histórico.">>

MissingNameMsg == <<"Por favor, insira o nome do restaurante.">>
MissingImageMsg == <<"Por favor, envie pelo menos uma imagem do menu.">>
UnknownAppErrorMsg == <<"Ocorreu um erro desconhecido.">>
FileFailedMsg(name) == <<"Falha ao processar o arquivo:", name>>
AlreadySavedMsg == <<"Este restaurante já está salvo no seu histórico.">>

\* name.trim().toLowerCase()
NormalizedName(name) == [i \in 1..Len(Trim(name)) |-> ToLowerCase(Trim(name)[i].v)]

\* name.toLowerCase()
Lower(name) == [i \in 1..Len(name) |-> ToLowerCase(name[i].v)]

\* name.toLowerCase().replace(/ /g, '_'): the key of a name in the store
MenuKey(name) ==
    [i \in 1..Len(name) |-> IF IsWs(name[i]) THEN "_" ELSE ToLowerCase(name[i].v)]

\* word.charAt(0).toUpperCase() + word.slice(1), on the words that reach it
Capitalize(word) ==
    CASE word = "bistrô" -> "Bistrô"
      [] word = "cantina" -> "Cantina"
      [] OTHER -> word

\* the name the mount effect lists for a key: '_' becomes a space, each word is
\* capitalised
NameOfKey(key) ==
    [i \in 1..Len(key) |-> IF key[i] = "_" THEN WS ELSE StrTok(Capitalize(key[i]))]

\* the name saveMenuToHistory lists: the words of the trimmed name, capitalised
CapitalizedName(name) ==
    [i \in 1..Len(Trim(name)) |->
        IF IsWs(Trim(name)[i]) THEN WS ELSE StrTok(Capitalize(Trim(name)[i].v))]

\* the place of a name in the order of Array.prototype.sort, for the names that
\* reach it
NameRank(name) ==
    CASE name = <<StrTok("Bistrô")>> -> 1
      [] OTHER -> 2

\* names.sort()
SortNames(names) ==
    LET first(name) == NameRank(name) = 1
        rest(name) == NameRank(name) # 1
    IN  SelectSeq(names, first) \o SelectSeq(names, rest)

\* [...new Set(names)]
UniqueNames(names) ==
    LET firsts == {i \in 1..Len(names) : \A j \in 1..(i - 1) : names[j] # names[i]}
        at(n) == CHOOSE i \in firsts : Cardinality({j \in firsts : j < i}) = n - 1
    IN  [n \in 1..Cardinality(firsts) |-> names[at(n)]]

\* the keys of the store, as getAllKeys gives them
RECURSIVE KeysOf(_)
KeysOf(menus) ==
    IF menus = {} THEN <<>>
    ELSE LET entry == CHOOSE e \in menus : \A other \in menus :
                          NameRank(NameOfKey(e.key)) <= NameRank(NameOfKey(other.key))
         IN  <<entry.key>> \o KeysOf(menus \ {entry})

\* store.get(key): the files kept under the key, <<>> where there are none
FilesAt(menus, key) ==
    IF \E e \in menus : e.key = key
    THEN (CHOOSE e \in menus : e.key = key).files
    ELSE <<>>

\* store.put(files, key)
PutMenu(menus, key, files) ==
    {e \in menus : e.key # key} \cup {[key |-> key, files |-> files]}

\* store.delete(key)
DeleteMenu(menus, key) == {e \in menus : e.key # key}

\* a history that holds the menu of one restaurant
OneMenu == [menus |-> {[key |-> <<"bistrô">>, files |-> <<MenuPhoto>>]}, gets |-> 0]

\* the effect that loads a menu from the history, run in the render `state`: the
\* getFromDB request it makes (none, or one), with what the store will answer and
\* the images processFilesAndSetState closes over
AutoLoad(state, store) ==
    LET currentNameTrimmed == Trim(state.restaurantName)
        isStoredRestaurant ==
            \E i \in 1..Len(state.storedRestaurantNames) :
                Lower(state.storedRestaurantNames[i]) = Lower(currentNameTrimmed)
    IN  IF ~state.db \/ currentNameTrimmed = <<>> THEN {}
        ELSE IF state.loadedRestaurant # Nothing /\ currentNameTrimmed = state.loadedRestaurant
        THEN {}
        ELSE IF isStoredRestaurant
        THEN {[ op |-> "get",
                name |-> currentNameTrimmed,
                menuFiles |-> FilesAt(store.menus, MenuKey(currentNameTrimmed)),
                images |-> state.images ]}
        ELSE {}

\* the state of the component on its first render: loadProfilesAndSetActive()
\* and the initial values of the useState calls
Mounted(storage) ==
    LET last == storage.lastActiveProfileName IN
    [ mounted |-> TRUE,
      profile |-> IF Truthy(Get(storage.profiles, last))
                  THEN Get(storage.profiles, last) ELSE DefaultProfile,
      profileName |-> last,
      savedProfiles |-> storage.profiles,
      images |-> <<>>,
      suggestions |-> JArr(<<>>),
      isLoading |-> FALSE,
      error |-> Nothing,
      restaurantName |-> <<>>,
      restaurantNameError |-> Nothing,
      restaurantNameWarning |-> Nothing,
      storedRestaurantNames |-> <<>>,
      loadedRestaurant |-> Nothing,
      suggestionCount |-> DefaultSuggestionCount,
      db |-> FALSE,
      isProfileDeleteConfirmOpen |-> FALSE,
      isRestaurantDeleteConfirmOpen |-> FALSE,
      restaurantToDelete |-> Nothing ]

----------------------------------------------------------------------------
Init ==
    /\ apiKey \in ApiKeys
    /\ loadError = NoErr
    /\ pc = "loading"
    /\ call = NoCall
    /\ engine \in {"v8", "spidermonkey"}
    /\ sent = <<>>
    /\ reply = NoReply
    /\ thrown = NoErr
    /\ outcome = Unsettled
    /\ consoleLog = <<>>
    /\ ui = NotMounted
    /\ analyses = <<>>
    /\ reads = {}
    /\ blobUrls = NoBlobUrls
    /\ localStorage = EmptyStorage
    /\ indexedDB = NoMenus
    /\ pending = {}

\* LoadModule with a slip: only a key that is not defined stops the load
LoadModuleUndefinedOnly ==
    /\ pc = "loading"
    /\ IF apiKey.t = "undefined"
       THEN pc' = "failed" /\ loadError' = Err(TRUE, ApiKeyMissingMsg, "load")
       ELSE pc' = "idle" /\ loadError' = NoErr
    /\ UNCHANGED <<apiKey, call, engine, sent, reply, thrown, outcome, consoleLog>>
    /\ UNCHANGED appVars

\* the service module is evaluated: `if (!API_KEY) throw ...`, then the client is made
LoadModule ==
    /\ pc = "loading"
    /\ IF ~Truthy(apiKey)
       THEN pc' = "failed" /\ loadError' = Err(TRUE, ApiKeyMissingMsg, "load")
       ELSE pc' = "idle" /\ loadError' = NoErr
    /\ UNCHANGED <<apiKey, call, engine, sent, reply, thrown, outcome, consoleLog>>
    /\ UNCHANGED appVars

\* the richer analyzeMenu is called: the request is sent and the call awaits it
AnalyzeMenuRich(profiles, imageLists) ==
    /\ pc = "idle"
    /\ \E profile \in profiles, images \in imageLists, count \in 1..MaxCount :
           /\ call' = [variant |-> "rich", profile |-> profile, images |-> images,
                       suggestionCount |-> count]
           /\ sent' = <<Request(apiKey, RichProfileText(profile, count), images,
                                RequiredOf("rich"))>>
    /\ pc' = "pending"
    /\ UNCHANGED <<apiKey, loadError, engine, reply, thrown, outcome, consoleLog>>
    /\ UNCHANGED appVars

\* the simpler analyzeMenu is called: the instruction is built outside the try block,
\* so an error thrown there rejects the promise as it is; otherwise the request is
\* sent and the call awaits it
AnalyzeMenuSimple(profiles, imageLists) ==
    /\ pc = "idle"
    /\ \E profile \in profiles, images \in imageLists :
           LET profileText == SimpleProfileText(engine, profile) IN
           /\ call' = [variant |-> "simple", profile |-> profile, images |-> images,
                       suggestionCount |-> 0]
           /\ IF profileText.kind = "throw"
              THEN /\ sent' = <<>>
                   /\ outcome' = Rejected(profileText.error)
                   /\ pc' = "settled"
              ELSE /\ sent' = <<Request(apiKey, profileText.value, images,
                                        RequiredOf("simple"))>>
                   /\ outcome' = Unsettled
                   /\ pc' = "pending"
    /\ UNCHANGED <<apiKey, loadError, engine, reply, thrown, consoleLog>>
    /\ UNCHANGED appVars

\* the rest of analyzeMenu once generateContent has produced `rep`
Continue(rep) ==
    LET attempt == TryOf(call.variant, engine, rep) IN
    /\ reply' = rep
    /\ thrown' = attempt.error
    /\ outcome' = Settle(call.variant, attempt)
    /\ consoleLog' = LogOf(call.variant, rep, attempt)
    /\ pc' = "settled"
    /\ UNCHANGED <<apiKey, loadError, call, engine, sent>>
    /\ UNCHANGED appVars

\* generateContent resolves with a response
GenerateContentResolves(replies) ==
    /\ pc = "pending"
    /\ \E rep \in replies : Continue(rep)

\* generateContent rejects
GenerateContentRejects(errors) ==
    /\ pc = "pending"
    /\ \E error \in errors : Continue(RejectReply(error))

\* the caller has taken the result; another call may follow
CallerReceives ==
    /\ pc = "settled"
    /\ pc' = "idle"
    /\ call' = NoCall
    /\ sent' = <<>>
    /\ reply' = NoReply
    /\ thrown' = NoErr
    /\ outcome' = Unsettled
    /\ consoleLog' = <<>>
    /\ UNCHANGED <<apiKey, loadError, engine>>
    /\ UNCHANGED appVars

\* every reply of the service, for three profiles and one image
Next ==
    \/ LoadModule
    \/ AnalyzeMenuRich(SomeRichProfiles, SomeImageLists)
    \/ AnalyzeMenuSimple(SomeTagProfiles, SomeImageLists)
    \/ GenerateContentResolves(Responses)
    \/ GenerateContentRejects(TransportErrors)
    \/ CallerReceives

Spec == Init /\ [][Next]_vars

\* every profile and every list of images, for one reply of each kind
NextRequest ==
    \/ LoadModule
    \/ AnalyzeMenuRich(RichProfiles, ImageLists)
    \/ AnalyzeMenuSimple(TagProfiles, ImageLists)
    \/ GenerateContentResolves(SomeReplies)
    \/ GenerateContentRejects(SomeTransportErrors)
    \/ CallerReceives

SpecRequest == Init /\ [][NextRequest]_vars

----------------------------------------------------------------------------
(* The richer application: its handlers *)

InitApp ==
    /\ apiKey = JStr("AIzaSy-key")
    /\ loadError = NoErr
    /\ pc = "idle"
    /\ call = NoCall
    /\ engine \in {"v8", "spidermonkey"}
    /\ sent = <<>>
    /\ reply = NoReply
    /\ thrown = NoErr
    /\ outcome = Unsettled
    /\ consoleLog = <<>>
    /\ localStorage \in {EmptyStorage, UsedStorage}
    /\ ui = Mounted(localStorage)
    /\ analyses = <<>>
    /\ reads = {}
    /\ blobUrls = NoBlobUrls
    /\ indexedDB = NoMenus
    /\ pending = {OpenRequest}

\* the object URLs of the images listed
UrlsOf(images) == {images[i].url : i \in 1..Len(images)}

\* the cleanup of the effect on `images`, which runs when a handler has put a new
\* array in `images`: the URLs of the array it replaces are revoked
CleanupImages == [blobUrls EXCEPT !.revoked = @ \cup UrlsOf(ui.images)]

\* IsReady with a slip: an image that is listed counts, whatever its status
IsReadyOrUploading(image) == image.status \in {"ready", "uploading"}

IsReady(image) == image.status = "ready"

\* ConfirmationModal is an overlay over the whole page: while a dialog is open the
\* form under it takes no click
NoDialog == ~ui.isProfileDeleteConfirmOpen /\ ~ui.isRestaurantDeleteConfirmOpen

\* the render `next` follows a handler that left the requests `ops` pending and the
\* store as `store`: the history effect runs in it
RunEffect(next, ops, store) ==
    LET fetches == AutoLoad(next, store) IN
    /\ fetches # {} => store.gets < MaxLoads
    /\ pending' = ops \cup fetches
    /\ indexedDB' = [store EXCEPT !.gets = @ + Cardinality(fetches)]

\* canSubmit, which enables the submit button
CanSubmit ==
    /\ ~ui.isLoading
    /\ \E i \in 1..Len(ui.images) : IsReady(ui.images[i])
    /\ Len(Trim(ui.restaurantName)) > 0

\* the user types in the field of the restaurant name
HandleRestaurantNameChange ==
    /\ NoDialog
    /\ \E name \in RestaurantNames :
           LET named == Len(Trim(name)) > 0
               isExisting == \E i \in 1..Len(ui.storedRestaurantNames) :
                                 NormalizedName(ui.storedRestaurantNames[i]) = NormalizedName(name)
           IN  /\ ui' = [ui EXCEPT
                          !.restaurantName = name,
                          !.restaurantNameError = IF named THEN Nothing ELSE @,
                          !.restaurantNameWarning =
                              IF named /\ isExisting THEN AlreadySavedMsg ELSE Nothing,
                          !.images = IF named THEN @ ELSE <<>>,
                          !.loadedRestaurant = IF named THEN @ ELSE Nothing]
               /\ blobUrls' = [(IF named THEN blobUrls ELSE CleanupImages) EXCEPT
                                  !.byUser = IF named /\ name = ui.restaurantName THEN @ ELSE {}]
    /\ UNCHANGED <<analyses, reads, localStorage>>
    /\ IF ui'.restaurantName # ui.restaurantName
       THEN RunEffect(ui', pending, indexedDB)
       ELSE UNCHANGED historyVars
    /\ UNCHANGED serviceVars

\* the user picks a file: it is listed as 'uploading' and its read begins
HandleImageUpload ==
    /\ NoDialog
    /\ blobUrls.made < MaxUploads
    /\ \E file \in Files :
           LET url == blobUrls.made + 1 IN
           /\ ui' = [ui EXCEPT
                      !.loadedRestaurant = Nothing,
                      !.images = Append(@, [file |-> file, url |-> url, base64 |-> "",
                                            mimeType |-> "", status |-> "uploading"])]
           /\ reads' = reads \cup {[file |-> file, url |-> url]}
           /\ blobUrls' = [CleanupImages EXCEPT !.made = url, !.byUser = @ \cup {url}]
    /\ UNCHANGED <<analyses, localStorage>>
    /\ RunEffect(ui', pending, indexedDB)
    /\ UNCHANGED serviceVars

\* MarkReady with a slip: the image is found by its place in the files of the
\* upload, not by its URL, so an image further down the list is never marked
MarkReadyByPlace(images, read) ==
    [i \in 1..Len(images) |->
        IF i = 1 /\ images[i].url = read.url
        THEN [images[i] EXCEPT !.base64 = read.file.base64,
                               !.mimeType = read.file.mimeType,
                               !.status = "ready"]
        ELSE images[i]]

\* prev.map(...) at the end of a read: the image with the URL of the file has its
\* data filled in and becomes 'ready'
MarkReady(images, read) ==
    [i \in 1..Len(images) |->
        IF images[i].url = read.url
        THEN [images[i] EXCEPT !.base64 = read.file.base64,
                               !.mimeType = read.file.mimeType,
                               !.status = "ready"]
        ELSE images[i]]

\* fileToDataUrl resolves: the image with the URL of the file, where it is still
\* listed, becomes 'ready'
FileReadResolves ==
    /\ \E read \in reads :
           /\ ui' = [ui EXCEPT !.images = MarkReady(@, read)]
           /\ reads' = reads \ {read}
    /\ blobUrls' = CleanupImages
    /\ UNCHANGED <<analyses, localStorage>>
    /\ RunEffect(ui', pending, indexedDB)
    /\ UNCHANGED serviceVars

\* fileToDataUrl rejects: an error is shown and the image is taken off the list
FileReadRejects ==
    /\ \E read \in reads :
           LET kept(image) == image.url # read.url IN
           /\ ui' = [ui EXCEPT !.error = FileFailedMsg(read.file.name),
                               !.images = SelectSeq(@, kept)]
           /\ reads' = reads \ {read}
           /\ blobUrls' = [CleanupImages EXCEPT !.byUser = @ \ {read.url}]
    /\ UNCHANGED <<analyses, localStorage>>
    /\ RunEffect(ui', pending, indexedDB)
    /\ UNCHANGED serviceVars

\* the state that handleReset leaves
ResetForm(state) ==
    [state EXCEPT
        !.profile = DefaultProfile,
        !.profileName = "",
        !.images = <<>>,
        !.restaurantName = <<>>,
        !.loadedRestaurant = Nothing,
        !.suggestions = JArr(<<>>),
        !.isLoading = FALSE,
        !.error = Nothing,
        !.restaurantNameError = Nothing,
        !.restaurantNameWarning = Nothing]

\* 'Recomeçar'
HandleReset ==
    /\ NoDialog
    /\ ui' = ResetForm(ui)
    /\ localStorage' = [localStorage EXCEPT !.lastActiveProfileName = ""]
    /\ blobUrls' = [CleanupImages EXCEPT !.byUser = {}]
    \* `sinceReset` is history: no variable of the program tells a call that a reset
    \* came after it
    /\ analyses' = [i \in 1..Len(analyses) |-> [analyses[i] EXCEPT !.sinceReset = TRUE]]
    /\ UNCHANGED reads
    /\ UNCHANGED historyVars
    /\ UNCHANGED serviceVars

\* the form is submitted, which the button allows while canSubmit holds: up to the
\* await of analyzeMenu
HandleSubmit ==
    /\ NoDialog
    /\ CanSubmit
    /\ Len(analyses) < MaxInFlight
    /\ LET readyImages == SelectSeq(ui.images, IsReady)
           imageData == [i \in 1..Len(readyImages) |->
                            Image(readyImages[i].base64, readyImages[i].mimeType)]
       IN  IF Len(Trim(ui.restaurantName)) = 0
           THEN /\ ui' = [ui EXCEPT !.error = Nothing, !.restaurantNameError = MissingNameMsg]
                /\ UNCHANGED analyses
           ELSE IF Len(readyImages) = 0
           THEN /\ ui' = [ui EXCEPT !.error = MissingImageMsg]
                /\ UNCHANGED analyses
           ELSE /\ ui' = [ui EXCEPT !.error = Nothing, !.isLoading = TRUE,
                                    !.suggestions = JArr(<<>>)]
                \* `shown` is history: the suggestions on display when the call began
                /\ analyses' = Append(analyses,
                       [ request |-> Request(apiKey,
                                             RichProfileText(ui.profile, ui.suggestionCount),
                                             imageData, RequiredOf("rich")),
                         shown |-> ui.suggestions,
                         sinceReset |-> FALSE ])
    /\ UNCHANGED <<reads, blobUrls, localStorage>>
    /\ UNCHANGED historyVars
    /\ UNCHANGED serviceVars

\* what generateContent can produce for a call of the application
AppReplies == SomeReplies \cup {RejectReply(error) : error \in SomeTransportErrors}

\* how analyzeMenu settles for a reply
OutcomeFor(rep) == Settle("rich", RichTry(engine, rep))

\* the i-th pending call settles for the reply `rep`, and handleSubmit goes on after
\* its await: the suggestions or the message are put on display, then the loading
\* flag is cleared
AnalysisSettles(i, rep) ==
    /\ i \in 1..Len(analyses)
    /\ LET settled == OutcomeFor(rep) IN
       ui' = IF settled.kind = "fulfilled"
             THEN [ui EXCEPT !.suggestions = Get(settled.value, "suggestions"),
                             !.isLoading = FALSE]
             ELSE [ui EXCEPT !.error = IF settled.error.isError
                                       THEN settled.error.message
                                       ELSE UnknownAppErrorMsg,
                             !.isLoading = FALSE]
    /\ analyses' = [j \in 1..(Len(analyses) - 1) |->
                       IF j < i THEN analyses[j] ELSE analyses[j + 1]]
    /\ UNCHANGED <<reads, blobUrls, localStorage>>
    /\ UNCHANGED historyVars
    /\ UNCHANGED serviceVars

AnalyzeMenuSettles ==
    \E i \in 1..Len(analyses) : \E rep \in AppReplies : AnalysisSettles(i, rep)

----------------------------------------------------------------------------
(* The richer application: the saved profiles *)

\* the user types in the field of the profile name, or picks a saved name
HandleProfileNameChange ==
    /\ NoDialog
    /\ \E name \in ProfileNames :
           ui' = [ui EXCEPT
                   !.profileName = name,
                   !.profile = IF Truthy(Get(ui.savedProfiles, name))
                               THEN Get(ui.savedProfiles, name)
                               ELSE DefaultProfile]
    /\ UNCHANGED <<analyses, reads, blobUrls, localStorage>>
    /\ UNCHANGED historyVars
    /\ UNCHANGED serviceVars

\* the user types in a field of the profile
HandleProfileChange ==
    /\ NoDialog
    /\ \E input \in ProfileInputs :
           ui' = [ui EXCEPT !.profile = SetMember(@, input.name, JStr(input.value))]
    /\ UNCHANGED <<analyses, reads, blobUrls, localStorage>>
    /\ UNCHANGED historyVars
    /\ UNCHANGED serviceVars

\* 'Salvar Perfil', which the button allows while the name is not blank:
\* handleSaveClick and saveProfile.  localStorage.setItem can throw
SaveProfile ==
    /\ NoDialog
    /\ TrimName(ui.profileName) # ""
    /\ LET updatedProfiles == SetMember(ui.savedProfiles, TrimName(ui.profileName), ui.profile) IN
       \E written \in BOOLEAN :
           IF written
           THEN /\ localStorage' = [profiles |-> ReadBack(updatedProfiles),
                                    lastActiveProfileName |-> ""]
                /\ ui' = [ui EXCEPT !.savedProfiles = updatedProfiles,
                                    !.profile = DefaultProfile,
                                    !.profileName = ""]
           ELSE /\ UNCHANGED localStorage
                /\ ui' = [ui EXCEPT !.savedProfiles = updatedProfiles,
                                    !.error = SaveProfileFailedMsg]
    /\ UNCHANGED <<analyses, reads, blobUrls>>
    /\ UNCHANGED historyVars
    /\ UNCHANGED serviceVars

\* 'Apagar Perfil', which the button allows for the name of a saved profile
OpenProfileDeleteConfirm ==
    /\ TrimName(ui.profileName) # ""
    /\ IndexOf(ui.savedProfiles.keys, ui.profileName) # 0
    /\ NoDialog
    /\ ui' = [ui EXCEPT !.isProfileDeleteConfirmOpen = TRUE]
    /\ UNCHANGED <<analyses, reads, blobUrls, localStorage>>
    /\ UNCHANGED historyVars
    /\ UNCHANGED serviceVars

\* 'Não' in the dialog of the profile
CancelProfileDelete ==
    /\ ui.isProfileDeleteConfirmOpen
    /\ ui' = [ui EXCEPT !.isProfileDeleteConfirmOpen = FALSE]
    /\ UNCHANGED <<analyses, reads, blobUrls, localStorage>>
    /\ UNCHANGED historyVars
    /\ UNCHANGED serviceVars

\* 'Sim' in the dialog of the profile: the profile is taken off the list, the list
\* is written, and the form is reset
HandleConfirmDeleteProfile ==
    /\ ui.isProfileDeleteConfirmOpen
    /\ IF TrimName(ui.profileName) = "" \/ ~Truthy(Get(ui.savedProfiles, ui.profileName))
       THEN UNCHANGED <<ui, localStorage, blobUrls, analyses>>
       ELSE LET updatedProfiles == DeleteMember(ui.savedProfiles, ui.profileName) IN
            /\ \E written \in BOOLEAN :
                   /\ localStorage' = [profiles |-> IF written THEN ReadBack(updatedProfiles)
                                                    ELSE localStorage.profiles,
                                       lastActiveProfileName |-> ""]
                   \* handleReset, called last, clears the error that was just set
                   /\ ui' = ResetForm([ui EXCEPT
                                         !.savedProfiles = updatedProfiles,
                                         !.error = IF written THEN @ ELSE DeleteProfileFailedMsg,
                                         !.isProfileDeleteConfirmOpen = FALSE])
            /\ blobUrls' = [CleanupImages EXCEPT !.byUser = {}]
            /\ analyses' = [i \in 1..Len(analyses) |->
                               [analyses[i] EXCEPT !.sinceReset = TRUE]]
    /\ UNCHANGED reads
    /\ UNCHANGED historyVars
    /\ UNCHANGED serviceVars

NextProfiles ==
    \/ HandleProfileNameChange
    \/ HandleProfileChange
    \/ SaveProfile
    \/ OpenProfileDeleteConfirm
    \/ CancelProfileDelete
    \/ HandleConfirmDeleteProfile
    \/ HandleReset

SpecProfiles == InitApp /\ [][NextProfiles]_vars

----------------------------------------------------------------------------
(* The richer application: the history of menus *)

InitHistory ==
    /\ apiKey = JStr("AIzaSy-key")
    /\ loadError = NoErr
    /\ pc = "idle"
    /\ call = NoCall
    /\ engine = "v8"
    /\ sent = <<>>
    /\ reply = NoReply
    /\ thrown = NoErr
    /\ outcome = Unsettled
    /\ consoleLog = <<>>
    /\ localStorage = EmptyStorage
    /\ ui = Mounted(localStorage)
    /\ analyses = <<>>
    /\ reads = {}
    /\ blobUrls = NoBlobUrls
    /\ indexedDB = OneMenu
    /\ pending = {OpenRequest}

\* openDB resolves: the handle is kept and the keys of the store are asked for
OpenDBResolves ==
    /\ OpenRequest \in pending
    /\ ui' = [ui EXCEPT !.db = TRUE]
    /\ RunEffect(ui', (pending \ {OpenRequest})
                          \cup {[op |-> "keys", keys |-> KeysOf(indexedDB.menus)]},
                 indexedDB)
    /\ UNCHANGED <<analyses, reads, blobUrls, localStorage>>
    /\ UNCHANGED serviceVars

\* getAllKeysFromDB resolves: the names of the stored menus are listed
GetAllKeysResolves ==
    /\ \E op \in pending :
           /\ op.op = "keys"
           /\ ui' = [ui EXCEPT !.storedRestaurantNames =
                         SortNames(UniqueNames([i \in 1..Len(op.keys) |-> NameOfKey(op.keys[i])]))]
           /\ RunEffect(ui', pending \ {op}, indexedDB)
    /\ UNCHANGED <<analyses, reads, blobUrls, localStorage>>
    /\ UNCHANGED serviceVars

\* openDB or getAllKeysFromDB rejects
OpenDBRejects ==
    /\ \E op \in pending :
           /\ op.op \in {"open", "keys"}
           /\ pending' = pending \ {op}
    /\ ui' = [ui EXCEPT !.error = OpenFailedMsg]
    /\ UNCHANGED <<analyses, reads, blobUrls, localStorage, indexedDB>>
    /\ UNCHANGED serviceVars

\* getFromDB of the history effect resolves: where the store held files, the name
\* is marked as loaded and processFilesAndSetState starts on them
GetFromDBResolves ==
    /\ \E op \in pending :
           /\ op.op = "get"
           /\ IF op.menuFiles # <<>>
              THEN /\ ui' = [ui EXCEPT !.loadedRestaurant = op.name]
                   /\ blobUrls' = [blobUrls EXCEPT !.revoked = @ \cup UrlsOf(op.images)]
                   /\ RunEffect(ui', (pending \ {op})
                                         \cup {[op |-> "process", files |-> op.menuFiles]},
                                indexedDB)
              ELSE /\ pending' = pending \ {op}
                   /\ UNCHANGED <<ui, blobUrls, indexedDB>>
    /\ UNCHANGED <<analyses, reads, localStorage>>
    /\ UNCHANGED serviceVars

\* getFromDB rejects
GetFromDBRejects ==
    /\ \E op \in pending :
           /\ op.op = "get"
           /\ pending' = pending \ {op}
    /\ ui' = [ui EXCEPT !.error = LoadMenuFailedMsg]
    /\ UNCHANGED <<analyses, reads, blobUrls, localStorage, indexedDB>>
    /\ UNCHANGED serviceVars

\* processFilesAndSetState after its await: the files read become the list
FilesProcessed ==
    /\ \E op \in pending :
           /\ op.op = "process"
           /\ ui' = [ui EXCEPT !.images =
                         [i \in 1..Len(op.files) |->
                             [ file |-> op.files[i], url |-> blobUrls.made + i,
                               base64 |-> op.files[i].base64,
                               mimeType |-> op.files[i].mimeType, status |-> "ready" ]]]
           /\ blobUrls' = [CleanupImages EXCEPT !.made = @ + Len(op.files)]
           /\ RunEffect(ui', pending \ {op}, indexedDB)
    /\ UNCHANGED <<analyses, reads, localStorage>>
    /\ UNCHANGED serviceVars

\* processFilesAndSetState: a file of the stored menu cannot be read
FilesProcessingFails ==
    /\ \E op \in pending :
           /\ op.op = "process"
           /\ pending' = pending \ {op}
    /\ ui' = [ui EXCEPT !.error = LoadImagesFailedMsg]
    /\ UNCHANGED <<analyses, reads, blobUrls, localStorage, indexedDB>>
    /\ UNCHANGED serviceVars

\* the writes to the store that have not settled
Writes == {w \in pending : w.op \in {"put", "delete"}}

\* the user removes an image, which the thumbnail allows once it is 'ready'; where
\* the list becomes empty under the name of a stored menu, the menu is deleted
HandleRemoveImage ==
    /\ NoDialog
    /\ \E index \in 1..Len(ui.images) :
           LET updatedImages == [i \in 1..(Len(ui.images) - 1) |->
                                    IF i < index THEN ui.images[i] ELSE ui.images[i + 1]]
               formattedName == MenuKey(Trim(ui.restaurantName))
               isStored == \E i \in 1..Len(ui.storedRestaurantNames) :
                               MenuKey(ui.storedRestaurantNames[i]) = formattedName
           IN  /\ IsReady(ui.images[index])
               /\ ui' = [ui EXCEPT !.images = updatedImages, !.loadedRestaurant = Nothing]
               /\ IF updatedImages = <<>> /\ Trim(ui.restaurantName) # <<>> /\ ui.db /\ isStored
                  THEN \E ok \in BOOLEAN :
                           RunEffect(ui',
                                     pending \cup {[op |-> "delete", by |-> "remove",
                                                    key |-> formattedName, ok |-> ok]},
                                     IF ok THEN [indexedDB EXCEPT
                                                    !.menus = DeleteMenu(@, formattedName)]
                                     ELSE indexedDB)
                  ELSE RunEffect(ui', pending, indexedDB)
               /\ blobUrls' = [CleanupImages EXCEPT !.byUser = @ \ {ui.images[index].url}]
    /\ UNCHANGED <<analyses, reads, localStorage>>
    /\ UNCHANGED serviceVars

\* handleRemoveImage after its await of deleteFromDB
MenuDeleted ==
    /\ \E op \in pending :
           LET kept(name) == MenuKey(name) # op.key IN
           /\ op.op = "delete" /\ op.by = "remove"
           /\ IF op.ok
              THEN /\ ui' = [ui EXCEPT !.storedRestaurantNames = SelectSeq(@, kept)]
                   /\ RunEffect(ui', pending \ {op}, indexedDB)
              ELSE /\ pending' = pending \ {op}
                   /\ UNCHANGED <<ui, indexedDB>>
    /\ UNCHANGED <<analyses, reads, blobUrls, localStorage>>
    /\ UNCHANGED serviceVars

\* 'Salvar Restaurante', which the button allows for a name and a list with no
\* image 'uploading': up to the await of saveToDB
SaveMenuToHistory ==
    /\ NoDialog
    /\ Cardinality(Writes) < MaxWrites
    /\ Len(Trim(ui.restaurantName)) > 0
    /\ Len(ui.images) > 0
    /\ \A i \in 1..Len(ui.images) : ui.images[i].status # "uploading"
    /\ LET readyImages == SelectSeq(ui.images, IsReady)
           formattedName == MenuKey(Trim(ui.restaurantName))
           filesToSave == [i \in 1..Len(readyImages) |-> readyImages[i].file]
       IN  IF Trim(ui.restaurantName) = <<>> \/ readyImages = <<>> \/ ~ui.db
           THEN UNCHANGED historyVars
           ELSE \E ok \in BOOLEAN :
                    /\ pending' = pending \cup
                           {[ op |-> "put", ok |-> ok,
                              capitalizedName |-> CapitalizedName(ui.restaurantName),
                              storedRestaurantNames |-> ui.storedRestaurantNames ]}
                    /\ indexedDB' = IF ok THEN [indexedDB EXCEPT !.menus =
                                                    PutMenu(@, formattedName, filesToSave)]
                                    ELSE indexedDB
    /\ UNCHANGED <<ui, analyses, reads, blobUrls, localStorage>>
    /\ UNCHANGED serviceVars

\* saveMenuToHistory after its await
MenuSaved ==
    /\ \E op \in pending :
           /\ op.op = "put"
           /\ IF ~op.ok
              THEN /\ ui' = [ui EXCEPT !.error = SaveMenuFailedMsg]
                   /\ pending' = pending \ {op}
                   /\ UNCHANGED indexedDB
              ELSE IF \E i \in 1..Len(op.storedRestaurantNames) :
                          op.storedRestaurantNames[i] = op.capitalizedName
              THEN /\ pending' = pending \ {op}
                   /\ UNCHANGED <<ui, indexedDB>>
              ELSE /\ ui' = [ui EXCEPT !.storedRestaurantNames =
                                 SortNames(Append(@, op.capitalizedName))]
                   /\ RunEffect(ui', pending \ {op}, indexedDB)
    /\ UNCHANGED <<analyses, reads, blobUrls, localStorage>>
    /\ UNCHANGED serviceVars

\* 'Apagar Restaurante', which the button allows for the name of a stored menu
HandleDeleteRestaurantClick ==
    /\ NoDialog
    /\ Trim(ui.restaurantName) # <<>>
    /\ \E i \in 1..Len(ui.storedRestaurantNames) :
           Lower(ui.storedRestaurantNames[i]) = Lower(Trim(ui.restaurantName))
    /\ ~ui.isRestaurantDeleteConfirmOpen
    /\ ui' = [ui EXCEPT !.restaurantToDelete = Trim(ui.restaurantName),
                        !.isRestaurantDeleteConfirmOpen = TRUE]
    /\ UNCHANGED <<analyses, reads, blobUrls, localStorage>>
    /\ UNCHANGED historyVars
    /\ UNCHANGED serviceVars

\* 'Não' in the dialog of the restaurant
CancelRestaurantDelete ==
    /\ ui.isRestaurantDeleteConfirmOpen
    /\ ui' = [ui EXCEPT !.isRestaurantDeleteConfirmOpen = FALSE]
    /\ UNCHANGED <<analyses, reads, blobUrls, localStorage>>
    /\ UNCHANGED historyVars
    /\ UNCHANGED serviceVars

\* 'Sim' in the dialog of the restaurant: up to the await of deleteFromDB
HandleConfirmDeleteRestaurant ==
    /\ ui.isRestaurantDeleteConfirmOpen
    /\ Cardinality(Writes) < MaxWrites
    /\ IF ui.restaurantToDelete = Nothing \/ ~ui.db
       THEN UNCHANGED historyVars
       ELSE \E ok \in BOOLEAN :
                /\ pending' = pending \cup
                       {[ op |-> "delete", by |-> "confirm", ok |-> ok,
                          key |-> MenuKey(ui.restaurantToDelete),
                          restaurantToDelete |-> ui.restaurantToDelete,
                          restaurantName |-> ui.restaurantName,
                          images |-> ui.images ]}
                /\ indexedDB' = IF ok THEN [indexedDB EXCEPT !.menus =
                                                DeleteMenu(@, MenuKey(ui.restaurantToDelete))]
                                ELSE indexedDB
    /\ UNCHANGED <<ui, analyses, reads, blobUrls, localStorage>>
    /\ UNCHANGED serviceVars

\* handleConfirmDeleteRestaurant after its await
RestaurantDeleted ==
    /\ \E op \in pending :
           LET kept(name) == Lower(name) # Lower(op.restaurantToDelete)
               current == NormalizedName(op.restaurantName) = Lower(op.restaurantToDelete)
           IN  /\ op.op = "delete" /\ op.by = "confirm"
               /\ IF op.ok
                  THEN /\ ui' = [ui EXCEPT
                                   !.storedRestaurantNames = SelectSeq(@, kept),
                                   !.restaurantName = IF current THEN <<>> ELSE @,
                                   !.images = IF current THEN <<>> ELSE @,
                                   !.loadedRestaurant = IF current THEN Nothing ELSE @,
                                   !.isRestaurantDeleteConfirmOpen = FALSE,
                                   !.restaurantToDelete = Nothing]
                       /\ blobUrls' = [(IF current
                                        THEN [CleanupImages EXCEPT
                                                 !.revoked = @ \cup UrlsOf(op.images)]
                                        ELSE blobUrls) EXCEPT !.byUser = {}]
                       /\ RunEffect(ui', pending \ {op}, indexedDB)
                  ELSE /\ ui' = [ui EXCEPT !.error = DeleteMenuFailedMsg,
                                           !.isRestaurantDeleteConfirmOpen = FALSE,
                                           !.restaurantToDelete = Nothing]
                       /\ pending' = pending \ {op}
                       /\ UNCHANGED <<blobUrls, indexedDB>>
    /\ UNCHANGED <<analyses, reads, localStorage>>
    /\ UNCHANGED serviceVars

\* the menus of the history as they are loaded, added to and emptied, with the
\* failures of the reads
NextMenus ==
    \/ OpenDBResolves
    \/ GetAllKeysResolves
    \/ OpenDBRejects
    \/ HandleRestaurantNameChange
    \/ HandleImageUpload
    \/ FileReadResolves
    \/ FileReadRejects
    \/ GetFromDBResolves
    \/ GetFromDBRejects
    \/ FilesProcessed
    \/ FilesProcessingFails
    \/ HandleRemoveImage
    \/ MenuDeleted
    \/ HandleReset

SpecMenus == InitHistory /\ [][NextMenus]_vars

\* the menus of the history as they are saved and deleted as well, where the reads
\* succeed
NextHistory ==
    \/ OpenDBResolves
    \/ GetAllKeysResolves
    \/ HandleRestaurantNameChange
    \/ HandleImageUpload
    \/ FileReadResolves
    \/ GetFromDBResolves
    \/ FilesProcessed
    \/ HandleRemoveImage
    \/ MenuDeleted
    \/ SaveMenuToHistory
    \/ MenuSaved
    \/ HandleDeleteRestaurantClick
    \/ CancelRestaurantDelete
    \/ HandleConfirmDeleteRestaurant
    \/ RestaurantDeleted
    \/ HandleReset

SpecHistory == InitHistory /\ [][NextHistory]_vars

----------------------------------------------------------------------------
NextApp ==
    \/ HandleRestaurantNameChange
    \/ HandleImageUpload
    \/ FileReadResolves
    \/ FileReadRejects
    \/ HandleReset
    \/ HandleSubmit
    \/ AnalyzeMenuSettles

SpecApp == InitApp /\ [][NextApp]_vars

----------------------------------------------------------------------------
(* The simpler application *)

\* which of the two applications is mounted
RichApp == ui.mounted /\ "images" \in DOMAIN ui
SimpleApp == ui.mounted /\ "menuImages" \in DOMAIN ui

\* what the user can type as a tag
TagTexts == {"", " ", "doce", " doce "}

\* String.prototype.trim, on the texts of tags and moods that reach it
TrimTag(text) ==
    CASE text = " " -> ""
      [] text = " doce" -> "doce"
      [] text = " doce " -> "doce"
      [] OTHER -> text

\* value.split(','), on the stored strings that reach it
SplitOnCommas(text) ==
    CASE text = "doce, doce" -> <<"doce", " doce">>
      [] text = "vegetariano," -> <<"vegetariano", "">>
      [] OTHER -> <<text>>

\* the migration of loadProfile for a field that holds a string:
\* value ? value.split(',').map(s => s.trim()).filter(Boolean) : []
MigratedTags(value) ==
    LET pieces == SplitOnCommas(value.s)
        trimmed == [i \in 1..Len(pieces) |-> TrimTag(pieces[i])]
        filled(text) == text # ""
        kept == SelectSeq(trimmed, filled)
    IN  IF value.s = "" THEN JArr(<<>>)
        ELSE JArr([i \in 1..Len(kept) |-> JStr(kept[i])])

\* { ...target, ...source }, from the i-th key of the source on
RECURSIVE Spread(_, _, _)
Spread(target, source, i) ==
    IF i > Len(source.keys) THEN target
    ELSE Spread(SetMember(target, source.keys[i], source.vals[i]), source, i + 1)

\* defaultProfile of loadProfile
SimpleDefaultProfile == ProfileOf("simple", [field \in FieldNames |-> "empty"])

\* loadProfile: the item of 'userProfile', with its string fields migrated to lists,
\* over the default profile; the default profile where the item is not there or
\* cannot be read
LoadProfile(item) ==
    LET parsed == JSONParse(item)
        migrated(value) == IF value.t = "str" THEN MigratedTags(value) ELSE value
        fields == JObj(parsed.val.keys,
                       [i \in 1..Len(parsed.val.keys) |->
                           IF parsed.val.keys[i] \in TagFields
                           THEN migrated(parsed.val.vals[i])
                           ELSE parsed.val.vals[i]])
    IN  IF item = Nothing THEN SimpleDefaultProfile
        ELSE IF ~parsed.ok \/ parsed.val.t \in {"null", "undefined"} THEN SimpleDefaultProfile
        ELSE IF parsed.val.t # "obj" THEN SimpleDefaultProfile
        ELSE Spread(SimpleDefaultProfile, fields, 1)

\* a profile an earlier version of the application stored, with strings in the
\* fields that now hold lists
OldProfile ==
    JObj(ProfileFields,
         <<JStr("doce, doce"), JStr(""), JStr("vegetariano,"), JStr("feliz"),
           JStr("sem glúten"), JStr("")>>)

\* a profile this version stored
SavedProfile == ProfileOf("simple", [field \in FieldNames |-> "filled"])

\* the item handleSaveProfile wrote for it
SavedProfileItem == {Stringify(SavedProfile, <<>>)}

\* what the item 'userProfile' can hold when the application starts
StoredProfileItems ==
    {Nothing, Stringify(OldProfile, <<>>)} \cup SavedProfileItem

\* what the user can type as the name of the restaurant in the simpler application
SimpleNames == {<<>>, <<StrTok("Bistrô")>>, <<StrTok("Cantina")>>}

\* `${MENU_STORAGE_PREFIX}${name.trim().toLowerCase().replace(/ /g, '_')}`
MenuStorageKey(name) == <<"menu_">> \o MenuKey(Trim(name))

\* `of` is history: the key of the restaurant whose name stood in the field when the
\* image was picked, which no variable of the program keeps
StoredImage(image) == [base64 |-> image.base64, mimeType |-> image.mimeType, of |-> image.of]

\* `data:${img.mimeType};base64,${img.base64}`
DataUrl(image) == <<"data:", image.mimeType, ";base64,", image.base64>>

\* the item of a key, as a list of images; <<>> where the key is not there
MenuAt(storage, key) ==
    IF \E menu \in storage.menus : menu.key = key
    THEN (CHOOSE menu \in storage.menus : menu.key = key).images
    ELSE <<>>

\* localStorage.setItem of a menu, and localStorage.removeItem
SetMenu(storage, key, images) ==
    [storage EXCEPT !.menus = {menu \in @ : menu.key # key}
                                  \cup {[key |-> key, images |-> images]}]
RemoveMenu(storage, key) ==
    [storage EXCEPT !.menus = {menu \in @ : menu.key # key}]

\* getStoredRestaurantNames: the names of the keys that begin with 'menu_', in the
\* order in which localStorage.key(i) gives them, which the browser chooses
StoredNames(storage) ==
    LET names == {NameOfKey(Tail(menu.key)) : menu \in storage.menus}
        n == Cardinality(names)
    IN  {order \in [1..n -> names] : \A i, j \in 1..n : i # j => order[i] # order[j]}

\* the menu of one image an earlier visit stored for 'Bistrô'
BistroMenu ==
    [ key |-> MenuStorageKey(<<StrTok("Bistrô")>>),
      images |-> <<[ base64 |-> MenuPhoto.base64, mimeType |-> MenuPhoto.mimeType,
                     of |-> MenuStorageKey(<<StrTok("Bistrô")>>) ]>> ]

UploadFailedMsg ==
    <<"Não foi possível processar o(s) arquivo(s) de imagem.", "Por favor, tente novamente.">>

\* the state of the component on its first render
SimpleMounted(storage) ==
    [ mounted |-> TRUE,
      profile |-> LoadProfile(storage.userProfile),
      restaurantName |-> <<>>,
      menuImages |-> <<>>,
      isImageUploading |-> FALSE,
      suggestions |-> JArr(<<>>),
      isLoading |-> FALSE,
      error |-> Nothing,
      profileErrors |-> {},
      storedRestaurantNames |-> <<>> ]

\* the timer the effect on restaurantName sets, with the name it closed over
Timer(name) == [op |-> "timer", restaurantName |-> name]

\* the simpler application starts on one of the stored profiles
InitProfile(items) ==
    /\ apiKey = JStr("AIzaSy-key")
    /\ loadError = NoErr
    /\ pc = "idle"
    /\ call = NoCall
    /\ engine = "v8"
    /\ sent = <<>>
    /\ reply = NoReply
    /\ thrown = NoErr
    /\ outcome = Unsettled
    /\ consoleLog = <<>>
    /\ \E item \in items :
           localStorage = [userProfile |-> item, menus |-> {BistroMenu}]
    /\ \E names \in StoredNames(localStorage) :
           ui = [SimpleMounted(localStorage) EXCEPT !.storedRestaurantNames = names]
    /\ analyses = <<>>
    /\ reads = {}
    /\ blobUrls = NoBlobUrls
    /\ indexedDB = NoMenus
    /\ pending = {Timer(<<>>)}

InitTags == InitProfile(StoredProfileItems)

InitSimple == InitProfile(SavedProfileItem)

\* handleTagsChange: the field takes the new list and its error is cleared
HandleTagsChange(state, name, value) ==
    [state EXCEPT !.profile = SetMember(@, name, JArr(value)),
                  !.profileErrors = @ \ {name}]

\* addTag of the TagInput of a field, with the text of its input
AddTag ==
    /\ \E name \in TagFields : \E tagToAdd \in TagTexts :
           LET tags == Get(ui.profile, name).items
               trimmedTag == TrimTag(tagToAdd)
           IN  IF trimmedTag # "" /\ IndexOf(tags, JStr(trimmedTag)) = 0
               THEN ui' = HandleTagsChange(ui, name, Append(tags, JStr(trimmedTag)))
               ELSE UNCHANGED ui
    /\ UNCHANGED <<analyses, reads, blobUrls, localStorage>>
    /\ UNCHANGED historyVars
    /\ UNCHANGED serviceVars

\* removeTag, from the button of a tag
RemoveTag ==
    /\ \E name \in TagFields :
           LET tags == Get(ui.profile, name).items IN
           \E at \in 1..Len(tags) :
               LET other(tag) == tag # tags[at] IN
               ui' = HandleTagsChange(ui, name, SelectSeq(tags, other))
    /\ UNCHANGED <<analyses, reads, blobUrls, localStorage>>
    /\ UNCHANGED historyVars
    /\ UNCHANGED serviceVars

\* handleProfileChange of the simpler application, for the mood
HandleMoodChange ==
    /\ \E value \in {"", " ", "feliz"} :
           ui' = [ui EXCEPT !.profile = SetMember(@, "mood", JStr(value)),
                            !.profileErrors = @ \ {"mood"}]
    /\ UNCHANGED <<analyses, reads, blobUrls, localStorage>>
    /\ UNCHANGED historyVars
    /\ UNCHANGED serviceVars

\* handleSaveProfile: localStorage.setItem can throw, which is only logged
HandleSaveProfile ==
    /\ \E written \in BOOLEAN :
           localStorage' = IF written
                           THEN [localStorage EXCEPT
                                    !.userProfile = Stringify(ui.profile, <<>>)]
                           ELSE localStorage
    /\ UNCHANGED <<ui, analyses, reads, blobUrls>>
    /\ UNCHANGED historyVars
    /\ UNCHANGED serviceVars

\* the profile of the simpler application alone
NextTags ==
    \/ AddTag
    \/ RemoveTag
    \/ HandleMoodChange

SpecTags == InitTags /\ [][NextTags]_vars

\* setRestaurantName with another name: the effect clears its timer and sets one
SetRestaurantName ==
    /\ \E name \in SimpleNames :
           /\ name # ui.restaurantName
           /\ ui' = [ui EXCEPT !.restaurantName = name]
           /\ pending' = {op \in pending : op.op # "timer"} \cup {Timer(name)}
    /\ UNCHANGED <<analyses, reads, blobUrls, localStorage, indexedDB>>
    /\ UNCHANGED serviceVars

\* the timer fires after 300 ms: loadMenuForRestaurant with the name it closed over
LoadMenuForRestaurant ==
    /\ \E op \in pending :
           LET key == MenuStorageKey(op.restaurantName)
               storedMenu == MenuAt(localStorage, key)
               imageUrls == [i \in 1..Len(storedMenu) |->
                                [ url |-> DataUrl(storedMenu[i]),
                                  base64 |-> storedMenu[i].base64,
                                  mimeType |-> storedMenu[i].mimeType,
                                  of |-> storedMenu[i].of ]]
           IN  /\ op.op = "timer"
               /\ pending' = pending \ {op}
               /\ ui' = IF Trim(op.restaurantName) = <<>> \/ storedMenu = <<>>
                        THEN [ui EXCEPT !.menuImages = <<>>]
                        ELSE [ui EXCEPT !.menuImages = imageUrls,
                                        !.error = Nothing,
                                        !.suggestions = JArr(<<>>)]
    /\ UNCHANGED <<analyses, reads, blobUrls, localStorage, indexedDB>>
    /\ UNCHANGED serviceVars

\* handleImageUpload of the simpler application up to its await: the name and the
\* list of the render in which the file was picked go with it
SimpleHandleImageUpload ==
    /\ blobUrls.made < MaxUploads
    /\ \E file \in Files :
           /\ pending' = pending \cup
                  {[ op |-> "upload", file |-> file, url |-> blobUrls.made + 1,
                     restaurantName |-> ui.restaurantName, menuImages |-> ui.menuImages ]}
           /\ blobUrls' = [blobUrls EXCEPT !.made = @ + 1]
    /\ ui' = [ui EXCEPT !.isImageUploading = TRUE, !.error = Nothing]
    /\ UNCHANGED <<analyses, reads, localStorage, indexedDB>>
    /\ UNCHANGED serviceVars

\* the files are read: the list the handler closed over, with the new image after
\* it, is shown and, under a name, stored; localStorage.setItem can throw
FilesRead ==
    /\ \E op \in pending : \E written \in BOOLEAN :
           LET key == MenuStorageKey(op.restaurantName)
               newImage == [ url |-> op.url, base64 |-> op.file.base64,
                             mimeType |-> op.file.mimeType, of |-> key ]
               updatedImageList == Append(op.menuImages, newImage)
               imagesToStore == [i \in 1..Len(updatedImageList) |->
                                    StoredImage(updatedImageList[i])]
               named == Trim(op.restaurantName) # <<>>
           IN  /\ op.op = "upload"
               /\ pending' = pending \ {op}
               /\ named \/ written
               /\ localStorage' = IF named /\ written
                                  THEN SetMenu(localStorage, key, imagesToStore)
                                  ELSE localStorage
               /\ \E names \in StoredNames(localStorage') :
                      ui' = [ui EXCEPT
                               !.menuImages = updatedImageList,
                               !.suggestions = JArr(<<>>),
                               !.storedRestaurantNames = IF named /\ written THEN names ELSE @,
                               !.error = IF written THEN @ ELSE UploadFailedMsg,
                               !.isImageUploading = FALSE]
    /\ UNCHANGED <<analyses, reads, blobUrls, indexedDB>>
    /\ UNCHANGED serviceVars

\* a file cannot be read
FilesReadFail ==
    /\ \E op \in pending :
           /\ op.op = "upload"
           /\ pending' = pending \ {op}
    /\ ui' = [ui EXCEPT !.error = UploadFailedMsg, !.isImageUploading = FALSE]
    /\ UNCHANGED <<analyses, reads, blobUrls, localStorage, indexedDB>>
    /\ UNCHANGED serviceVars

\* handleRemoveImage of the simpler application: under a name, what is left is
\* stored, or the key removed when nothing is left; localStorage.setItem can throw
SimpleHandleRemoveImage ==
    /\ \E indexToRemove \in 1..Len(ui.menuImages) : \E written \in BOOLEAN :
           LET updatedImages == [i \in 1..(Len(ui.menuImages) - 1) |->
                                    IF i < indexToRemove THEN ui.menuImages[i]
                                    ELSE ui.menuImages[i + 1]]
               key == MenuStorageKey(ui.restaurantName)
               dataToStore == [i \in 1..Len(updatedImages) |-> StoredImage(updatedImages[i])]
               named == Trim(ui.restaurantName) # <<>>
           IN  /\ (named /\ dataToStore # <<>>) \/ written
               /\ localStorage' =
                      IF ~named \/ ~written THEN localStorage
                      ELSE IF dataToStore # <<>> THEN SetMenu(localStorage, key, dataToStore)
                      ELSE RemoveMenu(localStorage, key)
               /\ \E names \in StoredNames(localStorage') :
                      ui' = [ui EXCEPT
                               !.menuImages = updatedImages,
                               !.storedRestaurantNames =
                                   IF named /\ dataToStore = <<>> THEN names ELSE @]
    /\ UNCHANGED <<analyses, reads, blobUrls>>
    /\ UNCHANGED historyVars
    /\ UNCHANGED serviceVars

\* validateProfile: the fields that are in error
ValidateProfile(profile) ==
    (IF Get(profile, "tastes").items = <<>> THEN {"tastes"} ELSE {})
        \cup (IF TrimTag(Get(profile, "mood").s) = "" THEN {"mood"} ELSE {})

\* 'Analisar Menu', which the button allows for a list that is not empty while no
\* call is loading: up to the await of analyzeMenu
HandleAnalyzeMenu ==
    /\ Len(ui.menuImages) > 0
    /\ ~ui.isLoading
    /\ Len(analyses) < MaxInFlight
    /\ LET errors == ValidateProfile(ui.profile)
           imagesToAnalyze == [i \in 1..Len(ui.menuImages) |->
                                  Image(ui.menuImages[i].base64, ui.menuImages[i].mimeType)]
       IN  IF errors # {}
           THEN /\ ui' = [ui EXCEPT !.error = Nothing, !.profileErrors = errors]
                /\ UNCHANGED analyses
           ELSE IF Trim(ui.restaurantName) = <<>>
           THEN /\ ui' = [ui EXCEPT !.error = MissingNameMsg, !.profileErrors = {}]
                /\ UNCHANGED analyses
           ELSE IF Len(ui.menuImages) = 0
           THEN /\ ui' = [ui EXCEPT !.error = MissingImageMsg, !.profileErrors = {}]
                /\ UNCHANGED analyses
           ELSE /\ ui' = [ui EXCEPT !.error = Nothing, !.profileErrors = {},
                                    !.isLoading = TRUE, !.suggestions = JArr(<<>>)]
                /\ analyses' = Append(analyses,
                       [ request |-> Request(apiKey, SimpleProfileText(engine, ui.profile),
                                             imagesToAnalyze, RequiredOf("simple")) ])
    /\ UNCHANGED <<reads, blobUrls, localStorage>>
    /\ UNCHANGED historyVars
    /\ UNCHANGED serviceVars

\* how analyzeMenu of the simpler variant settles for a reply: where the
\* instruction could not be written, no request was made and the error is thrown
SimpleOutcomeFor(analysis, rep) ==
    LET text == analysis.request.parts[1].text IN
    Settle("simple", IF text.kind = "throw" THEN Threw(text.error)
                     ELSE SimpleTry(engine, rep))

\* the pending call settles and handleAnalyzeMenu goes on after its await
SimpleAnalysisSettles ==
    /\ \E i \in 1..Len(analyses) : \E rep \in AppReplies :
           LET settled == SimpleOutcomeFor(analyses[i], rep) IN
           /\ ui' = IF settled.kind = "fulfilled"
                    THEN [ui EXCEPT !.suggestions = Get(settled.value, "suggestions"),
                                    !.isLoading = FALSE]
                    ELSE [ui EXCEPT !.error = IF settled.error.isError
                                              THEN settled.error.message
                                              ELSE UnknownAppErrorMsg,
                                    !.isLoading = FALSE]
           /\ analyses' = [j \in 1..(Len(analyses) - 1) |->
                              IF j < i THEN analyses[j] ELSE analyses[j + 1]]
    /\ UNCHANGED <<reads, blobUrls, localStorage>>
    /\ UNCHANGED historyVars
    /\ UNCHANGED serviceVars

\* the menus of the simpler application as they are loaded, added to and emptied
NextSimple ==
    \/ SetRestaurantName
    \/ LoadMenuForRestaurant
    \/ SimpleHandleImageUpload
    \/ FilesRead
    \/ FilesReadFail
    \/ SimpleHandleRemoveImage
    \/ HandleSaveProfile

SpecSimple == InitSimple /\ [][NextSimple]_vars

\* either application, from the lists of images it can show to its calls of
\* analyzeMenu: the uploads and the stored menus of the richer one, the stored
\* menus and the removals of the simpler one
InitBoth == InitHistory \/ InitSimple

NextBoth ==
    \/ RichApp /\ OpenDBResolves
    \/ RichApp /\ GetAllKeysResolves
    \/ RichApp /\ GetFromDBResolves
    \/ RichApp /\ FilesProcessed
    \/ RichApp /\ HandleRestaurantNameChange
    \/ RichApp /\ HandleImageUpload
    \/ RichApp /\ FileReadResolves
    \/ RichApp /\ FileReadRejects
    \/ RichApp /\ HandleSubmit
    \/ RichApp /\ AnalyzeMenuSettles
    \/ SimpleApp /\ SetRestaurantName
    \/ SimpleApp /\ LoadMenuForRestaurant
    \/ SimpleApp /\ SimpleHandleRemoveImage
    \/ SimpleApp /\ HandleAnalyzeMenu
    \/ SimpleApp /\ SimpleAnalysisSettles

SpecBoth == InitBoth /\ [][NextBoth]_vars

----------------------------------------------------------------------------
(* The properties of analyzeMenu *)

RichSettled == pc = "settled" /\ call.variant = "rich"
SimpleSettled == pc = "settled" /\ call.variant = "simple"

\* the reply is the text of a value the service wrote
Decoded == reply.kind = "text" /\ reply.shape = "json"

QualityCheckOf(v) == Get(v, "qualityCheck")
SuggestionsOf(v) == Get(v, "suggestions")

SaysLegible(v, b) ==
    HasKey(v, "qualityCheck") /\ Get(QualityCheckOf(v), "isLegible") = JBool(b)

NoSuggestions(v) ==
    \/ ~HasKey(v, "suggestions")
    \/ SuggestionsOf(v) = JArr(<<>>)

RejectedWith(message) == outcome.kind = "rejected" /\ outcome.error.message = message

Contains(message, word) == \E i \in 1..Len(message) : message[i] = word

\* no lexeme of the text is a word of the message
QuotesNothingOf(message, text) ==
    \A i \in 1..Len(message) : \A j \in 1..Len(text) : message[i] # text[j].v

RequiredRich == {"dishName", "description", "price", "reasonForRecommendation", "category"}
RequiredSimple == {"dishName", "description", "price", "reasonForRecommendation"}

HasAll(suggestion, required) == \A key \in required : HasKey(suggestion, key)

\* the message of the first check a reply fails, in the order of the pipeline; <<>> when
\* it fails none
FirstFailingCheck ==
    IF reply.shape = "blank" THEN EmptyResponseMsg
    ELSE IF reply.shape = "invalid" THEN MalformedResponseMsg
    ELSE IF ~HasKey(reply.origin, "qualityCheck") THEN IncompleteResponseMsg
    ELSE IF SaysLegible(reply.origin, FALSE)
         THEN IllegibleMsg(FeedbackOf(QualityCheckOf(reply.origin)))
    ELSE IF SaysLegible(reply.origin, TRUE) /\ NoSuggestions(reply.origin) THEN NoMatchesMsg
    ELSE <<>>

\* C1: in the richer variant the checks run in the order empty payload, JSON
\* decode, presence of qualityCheck, isLegible, non-empty suggestions, and the
\* caller receives the error of the first check that fails, whatever later checks
\* would fail too.
C1_FirstFailingCheckDecides ==
    (RichSettled /\ reply.kind = "text" /\ FirstFailingCheck # <<>>)
        => RejectedWith(FirstFailingCheck)

WellFormedRich(v, count) ==
    /\ SaysLegible(v, TRUE)
    /\ SuggestionsOf(v).t = "arr"
    /\ Len(SuggestionsOf(v).items) \in 1..count
    /\ \A i \in 1..Len(SuggestionsOf(v).items) :
           HasAll(SuggestionsOf(v).items[i], RequiredRich)

\* C2: a well-formed reply (isLegible true, N suggestions with all required fields,
\* 1 <= N <= suggestionCount) comes back as exactly those N suggestions, in the
\* same order, nutrition fields (also "N/A") unchanged.
C2_RoundTrip ==
    (RichSettled /\ Decoded /\ WellFormedRich(reply.origin, call.suggestionCount))
        => /\ outcome.kind = "fulfilled"
           /\ outcome.value = JObj(<<"suggestions">>, <<SuggestionsOf(reply.origin)>>)

\* two suggestions, the first with "N/A" nutrition fields, written with whitespace,
\* have come back
C2_Witness ==
    /\ RichSettled /\ Decoded /\ WellFormedRich(reply.origin, call.suggestionCount)
    /\ SuggestionsOf(reply.origin).items = <<Moqueca, Feijoada>>
    /\ Head(reply.text) = WS
    /\ outcome.kind = "fulfilled"
    /\ Get(Get(SuggestionsOf(outcome.value).items[1], "nutritionalInfo"), "protein") = JStr("N/A")

IsIllegibleMsg(message) == Len(message) = Len(IllegibleMsg("")) /\ message = IllegibleMsg(message[8])

\* C3: a decoded reply whose qualityCheck.isLegible is false always ends in the
\* Illegible error, with the feedback in its message when the feedback is not
\* empty, and never in suggestions.
C3_IllegibleAlways ==
    (RichSettled /\ Decoded /\ SaysLegible(reply.origin, FALSE))
        => /\ outcome.kind = "rejected"
           /\ IsIllegibleMsg(outcome.error.message)
           /\ LET feedback == Get(QualityCheckOf(reply.origin), "feedback") IN
              (feedback.t = "str" /\ feedback.s # "")
                  => Contains(outcome.error.message, feedback.s)

\* an illegible reply that carries feedback and a suggestion has been rejected
C3_Witness ==
    /\ RichSettled /\ Decoded
    /\ QualityCheckOf(reply.origin) = QualityCheck(FALSE, "A imagem está escura demais")
    /\ SuggestionsOf(reply.origin) = JArr(<<Feijoada>>)
    /\ outcome.kind = "rejected"
    /\ Contains(outcome.error.message, "A imagem está escura demais")

\* C4: a reply that decodes to a value without a qualityCheck member (null and
\* other non-objects too) always ends in the IncompleteResponse error.
C4_MissingQualityCheckIsIncomplete ==
    (RichSettled /\ Decoded /\ ~HasKey(reply.origin, "qualityCheck"))
        => RejectedWith(IncompleteResponseMsg)

\* C5: an error thrown by a check of the richer analyzeMenu reaches the caller with
\* the message it was created with.
C5_OwnErrorsUnchanged ==
    (RichSettled /\ thrown.site = "validation")
        => RejectedWith(thrown.message)

\* C6: in the richer variant a reply with no text (the empty string, whitespace
\* only, or no text at all) ends in the EmptyResponse error.
C6_NoTextIsEmptyResponse ==
    (RichSettled /\ (reply.kind = "notext" \/ (reply.kind = "text" /\ reply.shape = "blank")))
        => RejectedWith(EmptyResponseMsg)

\* C7: in the richer variant a text that is not JSON always ends in the
\* MalformedResponse error, whose message holds nothing of the text; the text goes
\* to the console only.
C7_MalformedNeverSurfaced ==
    (RichSettled /\ reply.kind = "text" /\ reply.shape = "invalid")
        => /\ RejectedWith(MalformedResponseMsg)
           /\ QuotesNothingOf(outcome.error.message, reply.text)
           /\ consoleLog # <<>> /\ consoleLog[1].text = Trim(reply.text)

\* a reply followed by a bare word has been rejected as malformed
C7_Witness ==
    /\ RichSettled /\ reply.kind = "text" /\ reply.shape = "invalid"
    /\ Len(reply.text) > 4 /\ reply.text[Len(reply.text)] = Tok("bad", "Moqueca")
    /\ RejectedWith(MalformedResponseMsg)

\* the message ends with a SyntaxError message of JSON.parse for the text
HoldsDiagnostic(message, text) ==
    \E at \in 1..(Len(text) + 1) : \E n \in 1..Len(message) :
        SubSeq(message, n, Len(message)) = SyntaxErrorMsg(engine, text, at)

\* what the caller of the simpler variant receives for a body
SimpleMessageFor(text) ==
    Settle("simple", SimpleTry(engine, TextReply(text, JUndefined, "none"))).error.message

\* C8: in the simpler variant an empty body and an invalid body are told apart, and
\* the message for an invalid body holds neither text of the body nor the
\* diagnostic of the JSON parser.
C8_SimpleEmptyAndMalformedDistinct ==
    (SimpleSettled /\ reply.kind = "text" /\ reply.shape = "invalid")
        => /\ outcome.kind = "rejected"
           /\ outcome.error.message # SimpleMessageFor(<<>>)
           /\ QuotesNothingOf(outcome.error.message, reply.text)
           /\ ~HoldsDiagnostic(outcome.error.message, Trim(reply.text))

\* C9: isLegible true with an empty suggestions array, or none, always ends in the
\* NoMatches error; so a fulfilled result holds at least one suggestion.
C9_NoMatchesOrNonEmpty ==
    /\ (RichSettled /\ Decoded /\ SaysLegible(reply.origin, TRUE) /\ NoSuggestions(reply.origin))
           => RejectedWith(NoMatchesMsg)
    /\ (RichSettled /\ outcome.kind = "fulfilled")
           => /\ SuggestionsOf(outcome.value).t = "arr"
              /\ Len(SuggestionsOf(outcome.value).items) >= 1

\* C10: every suggestion of a fulfilled result has all required fields (dishName,
\* description, price, reasonForRecommendation, and category in the richer
\* variant).
C10_SuggestionsHaveRequiredFields ==
    (pc = "settled" /\ outcome.kind = "fulfilled" /\ SuggestionsOf(outcome.value).t = "arr")
        => \A i \in 1..Len(SuggestionsOf(outcome.value).items) :
               HasAll(SuggestionsOf(outcome.value).items[i],
                      IF call.variant = "rich" THEN RequiredRich ELSE RequiredSimple)

\* C11: suggestionCount is an upper bound on the suggestions returned: whatever the
\* service answers, the list the richer analyzeMenu returns has at most
\* suggestionCount entries.
C11_CountBoundsSuggestions ==
    (RichSettled /\ outcome.kind = "fulfilled" /\ SuggestionsOf(outcome.value).t = "arr")
        => Len(SuggestionsOf(outcome.value).items) <= call.suggestionCount

\* what the caller is to receive for an error thrown by generateContent
TransportMessageFor(error) ==
    IF ~error.isError THEN UnknownErrorMsg
    ELSE IF LowerIncludes(error.message, "network") \/ LowerIncludes(error.message, "fetch")
    THEN ConnectivityMsg
    ELSE WrappedPrefix \o error.message

\* C12: an error thrown by generateContent reaches the caller as the Connectivity
\* message when its message contains "network" or "fetch" in any case, else as
\* "Falha ao obter ... A resposta do servidor foi: " and the raw message, and a
\* thrown value that is no Error as the catch-all message; it is never passed
\* through unchanged.
C12_TransportErrorsClassified ==
    (RichSettled /\ reply.kind = "reject")
        => /\ RejectedWith(TransportMessageFor(reply.error))
           /\ outcome.error.message # reply.error.message

Called == pc \in {"pending", "settled"}

\* the instruction of the request sent
InstructionSent == sent[1].parts[1].text

\* C13: a profile field that is absent takes its default on its line of the
\* instruction and the request is sent all the same, with both shapes of profile.
C13_AbsentFieldsTakeDefaults ==
    Called
        => /\ Len(sent) = 1
           /\ \A i \in 1..Len(ProfileFields) :
                  ~HasKey(call.profile, ProfileFields[i])
                      => InstructionSent.lines[i] = DefaultText(ProfileFields[i])

\* every field of the profile is there and is the empty string or the empty list
AllEmpty(profile) ==
    \A i \in 1..Len(ProfileFields) :
        Get(profile, ProfileFields[i]) \in {JStr(""), JArr(<<>>)}

\* C14: for a profile with every field empty (empty string, or empty list of tags)
\* building the instruction does not fail and the six lines (tastes, allergies,
\* preferences, mood, diet, budget) hold the default texts, none left blank.
C14_EmptyProfileTakesDefaults ==
    (Called /\ AllEmpty(call.profile))
        => /\ Len(sent) = 1
           /\ InstructionSent.lines =
                  <<"Não especificado", "Nenhuma especificada",
                    "Nenhuma preferência específica", "Neutro", "Nenhuma", "Flexível">>
           /\ \A i \in 1..Len(ProfileFields) : InstructionSent.lines[i] # ""

\* the simpler analyzeMenu has sent the request for a profile of empty tag lists
C14_Witness ==
    /\ pc = "pending" /\ call.variant = "simple" /\ AllEmpty(call.profile)
    /\ Get(call.profile, "tastes") = JArr(<<>>)
    /\ Len(sent) = 1 /\ InstructionSent.lines[1] = "Não especificado"

\* C15: every invocation of analyzeMenu sends exactly one request and never sends
\* it again: once the invocation has ended, with a result or with an error, one
\* request has gone out.
C15_ExactlyOneRequest ==
    /\ Len(sent) <= 1
    /\ pc = "settled" => Len(sent) = 1

\* C16: the request holds the instruction as its first part and then one part per
\* image, in the caller's order, each with the base64 data and the MIME type of
\* its image: k images make k + 1 parts.
C16_PartsFollowImages ==
    (Called /\ sent # <<>>)
        => LET parts == sent[1].parts IN
           /\ Len(sent) = 1
           /\ Len(parts) = Len(call.images) + 1
           /\ DOMAIN parts[1] = {"text"}
           /\ \A i \in 1..Len(call.images) :
                  parts[i + 1] = [inlineData |-> [data |-> call.images[i].base64,
                                                  mimeType |-> call.images[i].mimeType]]

\* a request for a PNG followed by a JPEG is on its way
C16_Witness ==
    /\ pc = "pending" /\ call.variant = "rich"
    /\ call.images = <<Image("iVBORw0K", "image/png"), Image("/9j/4AAQ", "image/jpeg")>>
    /\ Len(sent[1].parts) = 3
    /\ sent[1].parts[2].inlineData.mimeType = "image/png"

\* the step in which the i-th pending call of the richer application fails
AnalysisFails(i) ==
    \E rep \in AppReplies : OutcomeFor(rep).kind = "rejected" /\ AnalysisSettles(i, rep)

\* C17: a failed analysis leaves the system as it was before the call: the
\* suggestions on display and what is persisted are what they were when the call
\* was started (for a call that ran alone, with no reset since it began).
C17_FailureLeavesStateAsBefore ==
    [][(Len(analyses) = 1 /\ ~analyses[1].sinceReset /\ AnalysisFails(1))
          => /\ ui'.suggestions = analyses[1].shown
             /\ localStorage' = localStorage]_vars

\* C18: no request goes out without a credential: with API_KEY absent or empty
\* the load of the service module fails with "API_KEY environment variable not
\* set" and analyzeMenu is never invoked.
C18_NoRequestWithoutKey ==
    /\ (pc # "loading" /\ apiKey \in {JUndefined, JStr("")})
           => /\ pc = "failed"
              /\ loadError.isError
              /\ loadError.message = <<"API_KEY", "environment", "variable", "not", "set">>
              /\ call = NoCall /\ sent = <<>>
    /\ \A i \in 1..Len(sent) :
           sent[i].apiKey.t = "str" /\ sent[i].apiKey.s # ""

\* the load has failed on an empty API_KEY
C18_Witness ==
    pc = "failed" /\ apiKey = JStr("") /\ loadError.isError /\ sent = <<>>

\* C19: in the richer application at most one analyzeMenu call is in flight: while
\* a call is pending the submit button stays disabled, whatever the user does
\* (reset, then a restaurant name and images again, included).
C19_OneCallInFlight ==
    /\ Len(analyses) <= 1
    /\ analyses # <<>> => ~CanSubmit

\* C20: in the richer application the result of a call that was pending when the
\* user reset the form is discarded: when that call settles, neither its
\* suggestions nor its error are put on display.
C20_ResetDiscardsPendingResult ==
    [][\A i \in 1..Len(analyses) : \A rep \in AppReplies :
          (analyses[i].sinceReset /\ AnalysisSettles(i, rep))
              => /\ ui'.suggestions = ui.suggestions
                 /\ ui'.error = ui.error]_vars

\* C22: a decoded reply whose qualityCheck.isLegible is false and whose feedback is
\* the empty string, null or not there ends in the Illegible error with the
\* generic phrase 'Qualidade de imagem insuficiente.' as its reason.
C22_EmptyFeedbackTakesGenericPhrase ==
    (/\ RichSettled /\ Decoded /\ SaysLegible(reply.origin, FALSE)
     /\ Get(QualityCheckOf(reply.origin), "feedback") \in {JUndefined, JNull, JStr("")})
        => /\ outcome.kind = "rejected"
           /\ outcome.error.message = IllegibleMsg(DefaultFeedback)
           /\ ~Contains(outcome.error.message, "")
           /\ ~Contains(outcome.error.message, "undefined")

\* an illegible reply with an empty feedback has been rejected with the generic phrase
C22_Witness ==
    /\ RichSettled /\ Decoded
    /\ QualityCheckOf(reply.origin) = QualityCheck(FALSE, "")
    /\ outcome.kind = "rejected"
    /\ Contains(outcome.error.message, DefaultFeedback)

\* C25: in the richer application no image that is in `images` has a URL that was
\* revoked.
C25_ListedUrlsNotRevoked ==
    ui.mounted => \A i \in 1..Len(ui.images) : ui.images[i].url \notin blobUrls.revoked

\* what handleSubmit has on display once the call has settled as `settled`
OutcomeShown(settled, state) ==
    IF settled.kind = "fulfilled"
    THEN state.suggestions = Get(settled.value, "suggestions") /\ state.error = Nothing
    ELSE state.error = settled.error.message /\ state.suggestions = JArr(<<>>)

\* C27: the loading flag is never false while a call that was started is pending,
\* and in the step in which a call settles the loading flag becomes false with the
\* outcome of the call on display: its suggestions and no error, or its message
\* and no suggestions.
C27_LoadingUntilOutcomeShown ==
    [][/\ (ui'.mounted /\ analyses' # <<>>) => ui'.isLoading
       /\ \A i \in 1..Len(analyses) : \A rep \in AppReplies :
              AnalysisSettles(i, rep)
                  => ~ui'.isLoading /\ OutcomeShown(OutcomeFor(rep), ui')]_vars

\* C28: in the richer application the saved profiles in memory are always those
\* that localStorage holds.
C28_SavedProfilesArePersisted ==
    ui.mounted => ui.savedProfiles = localStorage.profiles

\* C26: every image listed as 'uploading' has its read in flight, so none is left
\* 'uploading' once its read has settled: the read that resolves makes it 'ready'
\* with its data and MIME type, the read that rejects takes it off the list.  Every
\* 'ready' image has its data and MIME type, and no step turns a 'ready' image
\* back to 'uploading'
C26_UploadsSettle ==
    /\ [](ui.mounted =>
             \A i \in 1..Len(ui.images) :
                 /\ ui.images[i].status \in {"uploading", "ready"}
                 /\ ui.images[i].status = "uploading" =>
                        \E read \in reads : read.url = ui.images[i].url
                 /\ IsReady(ui.images[i]) =>
                        ui.images[i].base64 # "" /\ ui.images[i].mimeType # "")
    /\ [][ui.mounted =>
             \A i \in 1..Len(ui.images) : \A j \in 1..Len(ui'.images) :
                 (IsReady(ui.images[i]) /\ ui'.images[j].url = ui.images[i].url)
                     => IsReady(ui'.images[j])]_vars
    /\ [][\A read \in reads \ reads' : \A j \in 1..Len(ui'.images) :
             ui'.images[j].url = read.url => IsReady(ui'.images[j])]_vars

\* a second upload was made beside a stored menu that was loaded: the image of
\* the first is 'ready', its read settled, and the read of the second is in flight
C26_Witness ==
    /\ ui.mounted
    /\ Len(ui.images) = 2
    /\ IsReady(ui.images[1]) /\ ui.images[1].url \in blobUrls.byUser
    /\ ui.images[2].status = "uploading"
    /\ Cardinality(reads) = 1
    /\ indexedDB.gets > 0

\* C24: an image the user added stays in the list until the user removes it,
\* changes the name of the restaurant, resets the form or deletes a restaurant
C24_AddedImagesStay ==
    ui.mounted => \A url \in blobUrls.byUser :
                      \E i \in 1..Len(ui.images) : ui.images[i].url = url

\* C29: where a step takes a menu out of the store, or a name off the list of
\* the stored names, the dialog of the restaurant was open and confirmed
C29_DeletedOnlyOnConfirm ==
    [][(ui.mounted /\ ui'.mounted) =>
          /\ (\E menu \in indexedDB.menus :
                  \A kept \in indexedDB'.menus : kept.key # menu.key)
                 => ui.isRestaurantDeleteConfirmOpen
          /\ (\E i \in 1..Len(ui.storedRestaurantNames) :
                  \A j \in 1..Len(ui'.storedRestaurantNames) :
                      ui'.storedRestaurantNames[j] # ui.storedRestaurantNames[i])
                 => \E op \in pending \ pending' : op.op = "delete" /\ op.by = "confirm"]_vars

\* the images of a request, as the parts that follow its instruction
ImagesSent(analysis) == Tail(analysis.request.parts)

\* the images an application has for a call: the 'ready' ones of the richer
\* application, the whole list of the simpler one
Usable(state) ==
    IF "images" \in DOMAIN state
    THEN LET readyImages == SelectSeq(state.images, IsReady) IN
         [i \in 1..Len(readyImages) |-> Image(readyImages[i].base64, readyImages[i].mimeType)]
    ELSE [i \in 1..Len(state.menuImages) |->
             Image(state.menuImages[i].base64, state.menuImages[i].mimeType)]

TagsOf(state, name) == Get(state.profile, name).items

\* C23: no list of tags holds a tag twice, an empty tag or a tag that is not
\* trimmed; a step leaves each list as it was, or with one new tag at its end, or
\* with one tag taken out and the others in their order
C23_TagsAreAnOrderedSet ==
    /\ [](SimpleApp =>
             \A name \in TagFields :
                 LET tags == TagsOf(ui, name) IN
                 \A i \in 1..Len(tags) :
                     /\ tags[i].s # ""
                     /\ TrimTag(tags[i].s) = tags[i].s
                     /\ \A j \in 1..Len(tags) : i # j => tags[i] # tags[j])
    /\ [][SimpleApp =>
             \A name \in TagFields :
                 LET before == TagsOf(ui, name)
                     after == TagsOf(ui', name)
                 IN  \/ after = before
                     \/ /\ Len(after) = Len(before) + 1
                        /\ SubSeq(after, 1, Len(before)) = before
                        /\ IndexOf(before, after[Len(after)]) = 0
                     \/ \E at \in 1..Len(before) :
                            after = SubSeq(before, 1, at - 1)
                                        \o SubSeq(before, at + 1, Len(before))]_vars

\* C30: every image of the menu stored under a key was picked or loaded while the
\* name of that key stood in the field, or while no name did
C30_StoredMenusHoldTheirOwnImages ==
    SimpleApp =>
        \A menu \in localStorage.menus :
            \A i \in 1..Len(menu.images) :
                menu.images[i].of \in {menu.key, MenuStorageKey(<<>>)}

====
